---- MODULE Spec2Model ----
(***************************************************************************)
(* A model of the URL shortener: the code generator (internal/id), the     *)
(* Postgres repository, the Redis cache, the shortener service that        *)
(* orchestrates them, the HTTP handlers' error mapping and the background  *)
(* reaper.                                                                 *)
(*                                                                         *)
(* Time is a discrete clock `now`.  One tick is the clock's resolution:    *)
(* the xid timestamp (seconds) advances by one per tick, and the cache     *)
(* TTLs are given in ticks.  Characters are natural numbers: 0..61 are the *)
(* indices into base62Chars, larger numbers are characters outside it.     *)
(***************************************************************************)
EXTENDS Integers, Sequences, FiniteSets, TLC

VARIABLES
    now,            \* the wall clock (time.Now(), NOW())
    rows,           \* table short_urls: a set of row records
    nextId,         \* the BIGSERIAL sequence of short_urls.id
    clicks,         \* tables click_events and click_stats, per code
    clickTx,        \* RecordClick statements begun, not yet executed
    cache,          \* Redis: code -> entry under key "url:<code>"
    xidCounter,     \* xid's process-wide object counter
    xidMachinePid,  \* xid's machine id and pid bytes, fixed per process
    genLast,        \* the last direct call of a Generator method and its result
    pc,             \* request task -> position in its handler
    loc,            \* request task -> the handler's local variables
    pending,        \* recordClickAsync goroutines not yet run: code -> how many
    reaperPc,       \* position of the reaper task in CleanupExpiredURLs
    reaperCodes,    \* the batch the reaper selected
    reaperErr,      \* what the last run of CleanupExpiredURLs returned
    main,           \* func main: its position, the server and the handles it holds
    issued,         \* codes returned by GenerateCode, in call order
    createdOK,      \* codes a Create has answered 201 for, with their long URL
    opsLeft,        \* requests the environment may still issue
    faultsLeft,     \* store or cache calls that may still fail
    cacheDown,      \* Redis is unreachable: every cache call fails
    limGlobal,      \* tokens of Limiter.globalLimiter
    limTable,       \* Limiter.ipLimiters: ip -> tokens of its limiter
    limPc,          \* client -> position of its request in Limiter.Allow
    limLast,        \* client -> what its last Allow saw and returned
    limQuiet,       \* cleanup sweeps since the last step of an Allow
    limShadow,      \* client -> tokens of a bucket of its own that is never evicted
    limHeap,        \* the rate.Limiter objects getIPLimiter allocated: ip and tokens
    limMap,         \* Limiter.ipLimiters as pointers: ip -> index into limHeap
    limReq          \* calls of Allow followed statement by statement

storeVars == <<rows, nextId, clicks, clickTx>>
genVars   == <<xidCounter, xidMachinePid, genLast>>
reapVars  == <<reaperPc, reaperCodes, reaperErr>>
fineVars  == <<limHeap, limMap, limReq>>
limVars   == <<limGlobal, limTable, limPc, limLast, limQuiet, limShadow, fineVars>>
vars == <<now, rows, nextId, clicks, clickTx, cache, xidCounter, xidMachinePid, genLast,
          pc, loc,
          pending, reaperPc, reaperCodes, reaperErr, main, issued, createdOK, opsLeft, faultsLeft,
          cacheDown, limVars>>

(***************************************************************************)
(* Bounds of the model and scaled program constants.                       *)
(***************************************************************************)
\* The clock runs from 0 to MaxTime.
MaxTime == 2
\* Requests the environment issues in one behaviour.
MaxOps == 2
\* Store and cache calls that fail in one behaviour.
MaxFaults == 1
\* GenerateCode calls recorded in `issued` (generator specification).
MaxIssued == 3
\* Config.CodeLength, scaled from 8 (cmd/api/main.go:68) to keep identifiers
\* within machine integers.
CodeLength == 2
\* Width of xid's counter field, scaled from 24 bits.
CounterBits == 2
\* Width of xid's machine id + pid field, scaled from 40 bits.
MachinePidBits == 10
\* xid's timestamp at clock 0 (Unix seconds are far from 0), scaled.
Epoch == 100
\* redis.ttl (default "24h"), redis.negative_ttl (default "5m") and the
\* time.Minute buffer of RedisCache.Set, in ticks.
PositiveTTL == 2
NegativeTTL == 1
TTLBuffer == 2
\* The batch limit of CleanupExpiredURLs, scaled from 100.
BatchLimit == 1
\* RecordClick statements the environment may issue directly.
MaxClicks == 3
\* Longest alias given to GenerateCustomCode, longest code given to
\* ValidateCode beside those of its test table.
MaxAliasLen == 3
MaxReplaced == 2
MaxValidateLen == 17
\* Requests in flight at once (shutdown specification).
MaxInflight == 2
\* Retry limit of the code generation loop of CreateShortURL.
MaxAttempts == 10
\* big.NewInt(62): the radix, also len(base62Chars).
Base == 62

Null == "null"

\* A nil *time.Time (expire_at IS NULL), and a Redis key without expiry.
NoExpiry == 0 - 1
NoTTL == 0 - 1

\* A nil or empty custom alias.
NoAlias == <<>>

RECURSIVE Pow(_, _)
Pow(b, e) == IF e = 0 THEN 1 ELSE b * Pow(b, e - 1)

Min(a, b) == IF a < b THEN a ELSE b

Reverse(s) == [i \in 1..Len(s) |-> s[Len(s) + 1 - i]]

Take(s, n) == SubSeq(s, 1, n)

(***************************************************************************)
(* internal/id/generator.go                                                *)
(***************************************************************************)
\* Indices of base62Chars.
Base62 == 0..(Base - 1)

\* A space, and a character that is neither a space nor in base62Chars ('@').
Space == Base
Other == Base + 1

\* xid.New().Bytes() read as one big-endian number: timestamp, then machine
\* id and pid, then the counter (github.com/rs/xid; fields scaled).
XidValue(ts, mp, ctr) ==
    ((Epoch + ts) * Pow(2, MachinePidBits) + mp) * Pow(2, CounterBits) + ctr

\* The loop of toBase62: remainders of the repeated division, least
\* significant digit first.
RECURSIVE Base62Remainders(_)
Base62Remainders(num) ==
    IF num > 0 THEN <<num % Base>> \o Base62Remainders(num \div Base) ELSE <<>>

toBase62(num) == Reverse(Base62Remainders(num))

\* generateRandomSuffix(length): every string of `length` base-62 characters.
generateRandomSuffix(length) ==
    IF length <= 0 THEN {<<>>} ELSE [1..length -> Base62]

\* Variant: GenerateCode without the final truncation.
GenerateCodeUntruncated(id) ==
    LET code == toBase62(id)
    IN  IF Len(code) < CodeLength
        THEN {code \o suf : suf \in generateRandomSuffix(CodeLength - Len(code))}
        ELSE {code}

\* The results GenerateCode can return for identifier `id`.
GenerateCode(id) ==
    LET code   == toBase62(id)
        padded == IF Len(code) < CodeLength
                  THEN {code \o suf : suf \in generateRandomSuffix(CodeLength - Len(code))}
                  ELSE {code}
    IN  {IF Len(c) > CodeLength THEN Take(c, CodeLength) ELSE c : c \in padded}

\* xid.New(): reads the clock and increments the counter.
NextXid == XidValue(now, xidMachinePid, xidCounter)
XidAdvance == xidCounter' = (xidCounter + 1) % Pow(2, CounterBits)


\* strings.TrimSpace: leading and trailing white space removed.
RECURSIVE TrimLeft(_)
TrimLeft(s) == IF s # <<>> /\ Head(s) = Space THEN TrimLeft(Tail(s)) ELSE s

TrimSpace(s) == Reverse(TrimLeft(Reverse(TrimLeft(s))))

\* sanitizeChar: a character of the alphabet is kept, any other character
\* is replaced by base62Chars[time.Now().UnixNano()%62], i.e. by any
\* character of the alphabet.
sanitizeChar(r) == IF r \in Base62 THEN {r} ELSE Base62

\* strings.Map(g.sanitizeChar, clean)
RECURSIVE MapSanitize(_)
MapSanitize(s) ==
    IF s = <<>> THEN {<<>>}
    ELSE {<<h>> \o t : h \in sanitizeChar(Head(s)), t \in MapSanitize(Tail(s))}

\* The results GenerateCustomCode(custom) can return; `id` is the identifier
\* xid.New() yields if the cleaned alias is empty.
GenerateCustomCode(custom, id) ==
    LET clean == TrimSpace(custom)
    IN  IF Len(clean) = 0 THEN GenerateCode(id)
        ELSE LET padded == UNION {
                     IF Len(c) < CodeLength
                     THEN {c \o suf : suf \in generateRandomSuffix(CodeLength - Len(c))}
                     ELSE {c} : c \in MapSanitize(clean)}
             IN  {IF Len(c) > CodeLength THEN Take(c, CodeLength) ELSE c : c \in padded}

\* ValidateCode: len(code) within 4..16 and every rune in base62Chars.
ValidateCode(code) ==
    IF Len(code) < 4 \/ Len(code) > 16 THEN FALSE
    ELSE \A i \in 1..Len(code) : code[i] \in Base62

\* No Generator method was called directly yet.
NoGenCall == [fn |-> "none", id |-> 0, in |-> <<>>, out |-> <<>>, ok |-> FALSE]

(***************************************************************************)
(* Errors.  An error is named after the place that makes it; ErrorText     *)
(* gives, for each, which of the substrings the handlers search for occur  *)
(* in its Error() text.                                                    *)
(***************************************************************************)
ErrorText ==
    [nil                  |-> {},
     \* repo.ErrURLNotFound "URL not found"
     RepoNotFound         |-> {"not found"},
     \* repo.ErrURLExpired "URL has expired"
     RepoExpired          |-> {"expired"},
     \* cache.ErrURLDeleted "URL is deleted"
     CacheDeleted         |-> {"deleted"},
     \* cache.ErrURLExpired "URL has expired"
     CacheExpired         |-> {"expired"},
     \* "custom alias already exists"
     AliasExists          |-> {"custom alias already exists"},
     \* "failed to create URL: failed to create URL: pq: duplicate key value
     \* violates unique constraint ..."
     CreateDuplicateKey   |-> {},
     \* "failed to create URL: failed to create URL: <driver error>"
     CreateStoreFailure   |-> {},
     \* "failed to get URL: <driver error>"
     GetStoreFailure      |-> {},
     \* "failed to get URL metadata: <driver error>"
     MetadataStoreFailure |-> {},
     \* "failed to delete URL: <driver error>"
     DeleteStoreFailure   |-> {},
     \* "failed to record click: <driver error>"
     ClickStoreFailure    |-> {},
     \* "failed to get expired URLs: <driver error>"
     GetExpiredFailure    |-> {},
     \* "failed to mark URLs as deleted: <driver error>"
     MarkFailure          |-> {},
     \* "failed to invalidate expired URLs from cache: <client error>"
     InvalidateFailure    |-> {},
     \* "failed to get from cache: <client error>" and the like of RedisCache
     CacheFailure         |-> {},
     \* "URL too long (max 2048 characters)"
     UrlTooLong           |-> {"URL too long"},
     \* "invalid URL format: <parse error>"
     UrlUnparseable       |-> {"invalid URL"},
     \* "only HTTP and HTTPS URLs are allowed"
     UrlBadScheme         |-> {},
     \* "URL must have a valid host"
     UrlNoHost            |-> {},
     \* "URL host is blocked"
     UrlHostBlocked       |-> {"blocked"},
     \* "URL host is not in allowed list"
     UrlHostNotAllowed    |-> {}]

\* strings.Contains(err.Error(), sub)
ErrContains(err, sub) == sub \in ErrorText[err]

\* Handler.CreateShortURL: the status and error code of the response.
CreateResponse(err) ==
    IF err = "nil" THEN [status |-> 201, error |-> "none"]
    ELSE IF ErrContains(err, "custom alias already exists")
         THEN [status |-> 409, error |-> "alias_exists"]
    ELSE IF ErrContains(err, "invalid URL")
         THEN [status |-> 400, error |-> "invalid_url"]
    ELSE IF ErrContains(err, "URL too long")
         THEN [status |-> 400, error |-> "url_too_long"]
    ELSE IF ErrContains(err, "blocked")
         THEN [status |-> 403, error |-> "url_blocked"]
    ELSE [status |-> 500, error |-> "internal_error"]

\* Handler.RedirectToLongURL
RedirectResponse(err) ==
    IF err = "nil" THEN [status |-> 301, error |-> "none"]
    ELSE IF ErrContains(err, "expired")
         THEN [status |-> 410, error |-> "url_expired"]
    ELSE IF ErrContains(err, "deleted")
         THEN [status |-> 410, error |-> "url_deleted"]
    ELSE [status |-> 404, error |-> "url_not_found"]

\* Handler.CleanupExpired
CleanupExpiredResponse(err) ==
    IF err # "nil" THEN [status |-> 500, error |-> "cleanup_failed"]
    ELSE [status |-> 200, error |-> "none"]

\* Handler.GetURLMetadata
MetadataResponse(err) ==
    IF err = "nil" THEN [status |-> 200, error |-> "none"]
    ELSE IF ErrContains(err, "expired")
         THEN [status |-> 410, error |-> "url_expired"]
    ELSE [status |-> 404, error |-> "url_not_found"]

\* Handler.DeleteURL
DeleteResponse(err) ==
    IF err = "nil" THEN [status |-> 200, error |-> "none"]
    ELSE [status |-> 404, error |-> "url_not_found"]

(***************************************************************************)
(* internal/repo: the Postgres repository over table short_urls.           *)
(***************************************************************************)
RowsOf(code) == {r \in rows : r.code = code}

\* time.Now().After(*ExpireAt) / the same test on a cached entry.
Expired(expire_at) == expire_at # NoExpiry /\ now > expire_at

\* Variant: the column without its UNIQUE constraint.
UniqueViolationNever(code) == FALSE

\* The UNIQUE constraint on short_urls.code.
UniqueViolation(code) == RowsOf(code) # {}

\* CreateURL: the INSERT ... RETURNING id, created_at.
CreateURL(code, long_url, expire_at, custom_alias) ==
    [err |-> IF UniqueViolation(code) THEN "CreateDuplicateKey" ELSE "nil",
     rows |-> IF UniqueViolation(code) THEN rows
              ELSE rows \cup {[id |-> nextId, code |-> code, long_url |-> long_url,
                               expire_at |-> expire_at,
                               is_deleted |-> FALSE, custom_alias |-> custom_alias]}]

\* GetURLByCode: SELECT ... WHERE code = $1 AND is_deleted = false, then the
\* expiry test.
GetURLByCode(code) ==
    LET found == {r \in RowsOf(code) : r.is_deleted = FALSE}
    IN  IF found = {} THEN [err |-> "RepoNotFound", url |-> Null]
        ELSE LET url == CHOOSE r \in found : TRUE
             IN  IF Expired(url.expire_at) THEN [err |-> "RepoExpired", url |-> Null]
                 ELSE [err |-> "nil", url |-> url]

\* GetURLMetadata: the same WHERE clause and expiry test over the join with
\* click_stats.
GetURLMetadata(code) ==
    LET found == {r \in RowsOf(code) : r.is_deleted = FALSE}
    IN  IF found = {} THEN [err |-> "RepoNotFound", url |-> Null]
        ELSE LET url == CHOOSE r \in found : TRUE
             IN  IF Expired(url.expire_at) THEN [err |-> "RepoExpired", url |-> Null]
                 ELSE [err |-> "nil", url |-> url]

\* DeleteURL: UPDATE short_urls SET is_deleted = true WHERE code = $1;
\* RowsAffected counts the rows the WHERE clause matches.
DeleteURLMatches(code) == RowsOf(code)

DeleteURL(code) ==
    LET matched == DeleteURLMatches(code)
    IN  [err |-> IF Cardinality(matched) = 0 THEN "RepoNotFound" ELSE "nil",
         rows |-> (rows \ matched) \cup {[r EXCEPT !.is_deleted = TRUE] : r \in matched}]

\* GetExpiredURLs: WHERE expire_at IS NOT NULL AND expire_at < NOW() AND
\* is_deleted = false.
ExpiredLive == {r.code : r \in {x \in rows : /\ x.expire_at # NoExpiry
                                              /\ x.expire_at < now
                                              /\ x.is_deleted = FALSE}}

\* Variant: the query without `AND is_deleted = false`.
GetExpiredURLsUnfiltered(limit) ==
    LET past == {r.code : r \in {x \in rows : x.expire_at # NoExpiry /\ x.expire_at < now}}
    IN  {S \in SUBSET past : Cardinality(S) = Min(limit, Cardinality(past))}

\* Variant: the query without its LIMIT.
GetExpiredURLsUnlimited(limit) == {ExpiredLive}

\* ... LIMIT $1: any `limit` of them (no ORDER BY), all if there are fewer.
GetExpiredURLs(limit) ==
    {S \in SUBSET ExpiredLive : Cardinality(S) = Min(limit, Cardinality(ExpiredLive))}

\* MarkURLsAsDeleted: UPDATE ... SET is_deleted = true WHERE code = ANY($1)
MarkURLsAsDeleted(codes) ==
    {IF r.code \in codes THEN [r EXCEPT !.is_deleted = TRUE] ELSE r : r \in rows}

\* RecordClick: INSERT INTO click_events; the foreign key wants a row of
\* short_urls with that code.
RecordClickOK(code) == RowsOf(code) # {}

\* The trigger update_click_stats, run after the insert of an event with
\* timestamp ts: INSERT INTO click_stats ... VALUES (code, 1, ts, ts)
\* ON CONFLICT (code) DO UPDATE SET total_clicks = total_clicks + 1,
\* last_access_at = ts.  `events` lists the ts of the code's click_events
\* rows in the order of their ids.
update_click_stats(code, ts) ==
    IF code \notin DOMAIN clicks
    THEN [events |-> <<ts>>, total_clicks |-> 1,
          last_access_at |-> ts, first_access_at |-> ts]
    ELSE [clicks[code] EXCEPT !.events = Append(@, ts),
                              !.total_clicks = @ + 1,
                              !.last_access_at = ts]

\* RecordClick, whose event row gets ts (DEFAULT NOW(): the time the
\* statement's transaction began).
RecordClick(code, ts) ==
    IF RecordClickOK(code)
    THEN (code :> update_click_stats(code, ts)) @@ clicks
    ELSE clicks

(***************************************************************************)
(* internal/cache: RedisCache.                                             *)
(***************************************************************************)
\* Variant: Get without the test of ExpireAt.
CacheGetUntimed(code) ==
    IF code \notin DOMAIN cache THEN [err |-> "ErrCacheMiss", url |-> Null]
    ELSE LET cached == cache[code]
         IN  IF cached.is_deleted THEN [err |-> "CacheDeleted", url |-> Null]
             ELSE [err |-> "nil", url |-> cached]

\* RedisCache.Get without connection errors.
CacheGet(code) ==
    IF code \notin DOMAIN cache THEN [err |-> "ErrCacheMiss", url |-> Null]
    ELSE LET cached == cache[code]
         IN  IF cached.is_deleted THEN [err |-> "CacheDeleted", url |-> Null]
             ELSE IF Expired(cached.expire_at) THEN [err |-> "CacheExpired", url |-> Null]
             ELSE [err |-> "nil", url |-> cached]

\* The TTL RedisCache.Set computes.
SetTTL(expire_at) ==
    LET ttl == IF expire_at # NoExpiry /\ expire_at - now < PositiveTTL
               THEN expire_at - now ELSE PositiveTTL
    IN  IF ttl > 0 THEN ttl + TTLBuffer ELSE ttl

\* client.Set(ctx, key, data, ttl): go-redis sends an expiry only for
\* ttl > 0; otherwise the key is stored without one.
RedisSet(code, entry, ttl) ==
    (code :> [entry EXCEPT !.ttl_at = IF ttl > 0 THEN now + ttl ELSE NoTTL]) @@ cache

\* RedisCache.Set
CacheSet(code, url) ==
    RedisSet(code,
             [long_url |-> url.long_url, expire_at |-> url.expire_at,
              is_deleted |-> url.is_deleted, ttl_at |-> NoTTL],
             SetTTL(url.expire_at))

\* RedisCache.SetNegative
CacheSetNegative(code) ==
    RedisSet(code,
             [long_url |-> Null, expire_at |-> NoExpiry, is_deleted |-> TRUE, ttl_at |-> NoTTL],
             NegativeTTL)

\* client.Del / the pipeline of InvalidateExpired
RedisDel(codes) == [c \in DOMAIN cache \ codes |-> cache[c]]

\* Redis drops a key when its time to live has elapsed.
RedisExpire(t) ==
    [c \in {k \in DOMAIN cache : cache[k].ttl_at = NoTTL \/ cache[k].ttl_at > t} |-> cache[c]]

(***************************************************************************)
(* internal/service: ShortenerService.                                     *)
(***************************************************************************)
\* Config.MaxURLLength as set in main.
MaxURLLength == 2048

\* security.blocked_domains and security.allowed_hosts of the deployment.
BlockedHosts == {"badness.example"}
AllowedHosts == {}

\* A long URL as validateURL sees it: its text, its length, whether
\* url.Parse accepts it, its scheme and host, and which configured host
\* patterns occur in the host.
Url(text, len, parses, scheme, host, hostHas) ==
    [text |-> text, len |-> len, parses |-> parses, scheme |-> scheme,
     host |-> host, hostHas |-> hostHas]

UrlA       == Url("https://example.com/a", 21, TRUE, "https", "example.com", {})
UrlB       == Url("http://example.org/b", 20, TRUE, "http", "example.org", {})
UrlLong    == Url("https://example.com/long...", MaxURLLength + 1, TRUE, "https",
                  "example.com", {})

\* URLs validateURL refuses: one that url.Parse rejects, one with another
\* scheme, one without host and one whose host contains a blocked pattern.
UrlUnparsed == Url("http://exa%zzmple.com/", 22, FALSE, "", "", {})
UrlFtp      == Url("ftp://example.com/file", 22, TRUE, "ftp", "example.com", {})
UrlNoHost   == Url("http:///path", 12, TRUE, "http", "", {})
UrlBlocked  == Url("https://www.badness.example/x", 29, TRUE, "https",
                   "www.badness.example", {"badness.example"})

\* validateURL: the error it returns, "nil" for none.
validateURL(u) ==
    IF u.len > MaxURLLength THEN "UrlTooLong"
    ELSE IF ~u.parses THEN "UrlUnparseable"
    ELSE IF u.scheme # "http" /\ u.scheme # "https" THEN "UrlBadScheme"
    ELSE IF u.host = "" THEN "UrlNoHost"
    ELSE IF \E blocked \in BlockedHosts : blocked \in u.hostHas THEN "UrlHostBlocked"
    ELSE IF AllowedHosts # {} /\ ~\E allowed \in AllowedHosts : allowed \in u.hostHas
         THEN "UrlHostNotAllowed"
    ELSE "nil"

\* The request tasks, and what the environment asks of them.
Tasks == 1..2

\* A custom alias of exactly CodeLength characters of the alphabet ("aa..").
AliasA == [i \in 1..CodeLength |-> 36]

RequestURLs    == {UrlA, UrlB}
RequestAliases == {NoAlias, AliasA}
RequestExpiry  == {NoExpiry, 1}

\* Codes a Resolve, Delete or Metadata request may name: those of the
\* aliases and every code a row has.
RequestCodes == {AliasA} \cup {r.code : r \in rows}

\* The fields of a ShortURL the service and the cache read.
NoRecord == [long_url |-> Null, expire_at |-> NoExpiry, is_deleted |-> FALSE]
Record(r) == [long_url |-> r.long_url, expire_at |-> r.expire_at, is_deleted |-> r.is_deleted]

\* A task's locals: the request (op, code, url, exp), CreateShortURL's
\* customAlias and loop counter i, the ShortURL in hand (rec, and rid for the
\* id the INSERT returned), the result (err, out = the long URL returned);
\* and, for the properties, the state of the code when the request arrived
\* (pre), the calls made and whether a cache call failed.
IdleLoc ==
    [op |-> "none", code |-> <<>>, url |-> Null, exp |-> NoExpiry, custom |-> FALSE,
     i |-> 0, rec |-> NoRecord, rid |-> 0, err |-> "nil", out |-> Null,
     pre |-> [created |-> FALSE, row |-> "none", negative |-> FALSE],
     calls |-> {}, cacheErr |-> FALSE]

\* What holds of `code` when a request for it arrives.
RowState(code) ==
    IF RowsOf(code) = {} THEN "none"
    ELSE LET r == CHOOSE x \in RowsOf(code) : TRUE
         IN  IF r.is_deleted THEN "deleted"
             ELSE IF Expired(r.expire_at) THEN "expired"
             ELSE "live"

Snapshot(code) ==
    [created  |-> code \in DOMAIN createdOK,
     row      |-> RowState(code),
     negative |-> code \in DOMAIN cache /\ cache[code].is_deleted]

\* The handler returns: its result is in loc[t].err and loc[t].out.
Finish(t, l, err, out) ==
    /\ pc' = [pc EXCEPT ![t] = "done"]
    /\ loc' = [loc EXCEPT ![t] = [l EXCEPT !.err = err, !.out = out]]

Goto(t, l, label) ==
    /\ pc' = [pc EXCEPT ![t] = label]
    /\ loc' = [loc EXCEPT ![t] = l]

\* The call `name` is made, and fails or not.
Called(l, name, failed) ==
    [l EXCEPT !.calls = @ \cup {name},
              !.cacheErr = @ \/ (failed /\ name \in {"cache.Get", "cache.Set",
                                                      "cache.SetNegative", "cache.Delete"})]

\* A store or cache call fails (connection error, timeout) or not.
StoreFails == IF faultsLeft > 0 THEN {TRUE, FALSE} ELSE {FALSE}
CacheFails == IF cacheDown THEN {TRUE} ELSE StoreFails
Fault(fails) ==
    /\ faultsLeft' = IF fails /\ ~cacheDown THEN faultsLeft - 1 ELSE faultsLeft
    /\ UNCHANGED <<cacheDown, limVars>>
StoreFault(fails) ==
    /\ faultsLeft' = IF fails THEN faultsLeft - 1 ELSE faultsLeft
    /\ UNCHANGED <<cacheDown, limVars>>

\* Tasks are interchangeable: a request is taken by the first idle one.
FirstIdle(t) == pc[t] = "idle" /\ \A u \in DOMAIN pc : u < t => pc[u] # "idle"

------------------------------------------------------------------------------
(* CreateShortURL *)

\* The request arrives: validateURL, then the first code.
CreateStart(t, u, alias, exp) ==
    /\ FirstIdle(t) /\ opsLeft > 0
    /\ opsLeft' = opsLeft - 1
    /\ LET l == [IdleLoc EXCEPT !.op = "create", !.url = u.text, !.exp = exp]
       IN  IF validateURL(u) # "nil"
           THEN /\ Finish(t, l, validateURL(u), Null)
                /\ UNCHANGED xidCounter
           ELSE IF alias # NoAlias
           THEN /\ \E code \in GenerateCustomCode(alias, NextXid) :
                       Goto(t, [l EXCEPT !.code = code, !.custom = TRUE,
                                         !.pre = Snapshot(code)],
                            "create_exists_cache")
                /\ IF Len(TrimSpace(alias)) = 0 THEN XidAdvance ELSE UNCHANGED xidCounter
           ELSE /\ \E code \in GenerateCode(NextXid) :
                       Goto(t, [l EXCEPT !.code = code, !.pre = Snapshot(code)],
                            "create_exists_cache")
                /\ XidAdvance
    /\ UNCHANGED <<now, storeVars, cache, xidMachinePid, genLast, pending, reapVars, main, issued,
                   createdOK, faultsLeft, cacheDown, limVars>>

\* What CreateShortURL does with the answer of codeExists.
AfterCodeExists(t, l, exists) ==
    IF l.custom
    THEN /\ IF exists THEN Finish(t, l, "AliasExists", Null)
            ELSE Goto(t, l, "create_store")
         /\ UNCHANGED xidCounter
    ELSE IF ~exists
    THEN /\ Goto(t, l, "create_store")
         /\ UNCHANGED xidCounter
    ELSE IF l.i + 1 < MaxAttempts
    THEN /\ \E code \in GenerateCode(NextXid) :
                Goto(t, [l EXCEPT !.i = @ + 1, !.code = code], "create_exists_cache")
         /\ XidAdvance
    ELSE /\ Goto(t, [l EXCEPT !.i = @ + 1], "create_store")
         /\ UNCHANGED xidCounter

\* codeExists: s.cache.Get
CreateExistsCache(t) ==
    /\ pc[t] = "create_exists_cache"
    /\ \E fails \in CacheFails :
         /\ Fault(fails)
         /\ LET l == Called(loc[t], "cache.Get", fails)
            IN  IF ~fails /\ CacheGet(l.code).err = "nil"
                THEN AfterCodeExists(t, l, TRUE)
                ELSE Goto(t, l, "create_exists_store") /\ UNCHANGED xidCounter
    /\ UNCHANGED <<now, storeVars, cache, xidMachinePid, genLast, pending, reapVars, main, issued,
                   createdOK, opsLeft>>

\* codeExists: s.repo.GetURLByCode
CreateExistsStore(t) ==
    /\ pc[t] = "create_exists_store"
    /\ \E fails \in StoreFails :
         /\ StoreFault(fails)
         /\ LET l == Called(loc[t], "repo.GetURLByCode", fails)
            IN  AfterCodeExists(t, l, ~fails /\ GetURLByCode(l.code).err = "nil")
    /\ UNCHANGED <<now, storeVars, cache, xidMachinePid, genLast, pending, reapVars, main, issued,
                   createdOK, opsLeft>>

\* s.repo.CreateURL
CreateStore(t) ==
    /\ pc[t] = "create_store"
    /\ \E fails \in StoreFails :
         /\ StoreFault(fails)
         /\ LET l == Called(loc[t], "repo.CreateURL", fails)
                r == CreateURL(l.code, l.url, l.exp, l.custom)
            IN  IF fails
                THEN Finish(t, l, "CreateStoreFailure", Null) /\ UNCHANGED <<rows, nextId>>
                ELSE IF r.err # "nil"
                THEN Finish(t, l, r.err, Null) /\ UNCHANGED <<rows, nextId>>
                ELSE /\ rows' = r.rows
                     /\ nextId' = nextId + 1
                     /\ Goto(t, [l EXCEPT !.rid = nextId], "create_warm")
    /\ UNCHANGED <<now, clicks, clickTx, cache, genVars, pending, reapVars, main, issued, createdOK,
                   opsLeft>>

\* s.cache.Set, whose error is dropped, and the response.
CreateWarm(t) ==
    /\ pc[t] = "create_warm"
    /\ \E fails \in CacheFails :
         /\ Fault(fails)
         /\ LET l == Called(loc[t], "cache.Set", fails)
            IN  /\ cache' = IF fails THEN cache
                            ELSE CacheSet(l.code, [long_url |-> l.url, expire_at |-> l.exp,
                                                   is_deleted |-> FALSE])
                /\ Finish(t, l, "nil", l.url)
    /\ UNCHANGED <<now, storeVars, genVars, pending, reapVars, main, issued, createdOK, opsLeft>>

------------------------------------------------------------------------------
(* GetLongURL *)

ResolveStart(t, code) ==
    /\ FirstIdle(t) /\ opsLeft > 0
    /\ opsLeft' = opsLeft - 1
    /\ Goto(t, [IdleLoc EXCEPT !.op = "resolve", !.code = code, !.pre = Snapshot(code)],
            "resolve_cache")
    /\ UNCHANGED <<now, storeVars, cache, genVars, pending, reapVars, main, issued, createdOK,
                   faultsLeft, cacheDown, limVars>>

\* go s.recordClickAsync(...)
Spawn(code) ==
    (code :> (IF code \in DOMAIN pending THEN pending[code] + 1 ELSE 1)) @@ pending

\* Variant: GetLongURL returning every error of s.cache.Get but a miss.
ResolveCacheStrict(t) ==
    /\ pc[t] = "resolve_cache"
    /\ \E fails \in CacheFails :
         /\ Fault(fails)
         /\ LET l == Called(loc[t], "cache.Get", fails)
                r == CacheGet(l.code)
            IN  IF fails
                THEN Finish(t, l, "CacheFailure", Null) /\ UNCHANGED pending
                ELSE IF r.err = "nil"
                THEN /\ pending' = Spawn(l.code)
                     /\ Finish(t, l, "nil", r.url.long_url)
                ELSE IF r.err = "CacheDeleted" \/ r.err = "CacheExpired"
                THEN Finish(t, l, r.err, Null) /\ UNCHANGED pending
                ELSE Goto(t, l, "resolve_store") /\ UNCHANGED pending
    /\ UNCHANGED <<now, storeVars, cache, genVars, reapVars, main, issued, createdOK, opsLeft>>

\* Variant: GetLongURL treating a deleted or expired entry as a miss.
ResolveCacheFallThrough(t) ==
    /\ pc[t] = "resolve_cache"
    /\ \E fails \in CacheFails :
         /\ Fault(fails)
         /\ LET l == Called(loc[t], "cache.Get", fails)
                r == CacheGet(l.code)
            IN  IF fails
                THEN Goto(t, l, "resolve_store") /\ UNCHANGED pending
                ELSE IF r.err = "nil"
                THEN /\ pending' = Spawn(l.code)
                     /\ Finish(t, l, "nil", r.url.long_url)
                ELSE Goto(t, l, "resolve_store") /\ UNCHANGED pending
    /\ UNCHANGED <<now, storeVars, cache, genVars, reapVars, main, issued, createdOK, opsLeft>>

\* s.cache.Get: a hit starts the recordClickAsync goroutine and returns; a
\* deleted or expired entry returns its error; anything else goes on.
ResolveCache(t) ==
    /\ pc[t] = "resolve_cache"
    /\ \E fails \in CacheFails :
         /\ Fault(fails)
         /\ LET l == Called(loc[t], "cache.Get", fails)
                r == CacheGet(l.code)
            IN  IF fails
                THEN Goto(t, l, "resolve_store") /\ UNCHANGED pending
                ELSE IF r.err = "nil"
                THEN /\ pending' = Spawn(l.code)
                     /\ Finish(t, l, "nil", r.url.long_url)
                ELSE IF r.err = "CacheDeleted" \/ r.err = "CacheExpired"
                THEN Finish(t, l, r.err, Null) /\ UNCHANGED pending
                ELSE Goto(t, l, "resolve_store") /\ UNCHANGED pending
    /\ UNCHANGED <<now, storeVars, cache, genVars, reapVars, main, issued, createdOK, opsLeft>>

\* Variant: GetLongURL writing the negative entry for every store error.
ResolveStoreNegativeAlways(t) ==
    /\ pc[t] = "resolve_store"
    /\ \E fails \in StoreFails :
         /\ StoreFault(fails)
         /\ LET l == Called(loc[t], "repo.GetURLByCode", fails)
                r == GetURLByCode(l.code)
            IN  IF fails THEN Finish(t, l, "GetStoreFailure", Null)
                ELSE IF r.err # "nil" THEN Goto(t, l, "resolve_negative")
                ELSE Goto(t, [l EXCEPT !.rec = Record(r.url)], "resolve_warm")
    /\ UNCHANGED <<now, storeVars, cache, genVars, pending, reapVars, main, issued, createdOK,
                   opsLeft>>

\* s.repo.GetURLByCode
ResolveStore(t) ==
    /\ pc[t] = "resolve_store"
    /\ \E fails \in StoreFails :
         /\ StoreFault(fails)
         /\ LET l == Called(loc[t], "repo.GetURLByCode", fails)
                r == GetURLByCode(l.code)
            IN  IF fails THEN Finish(t, l, "GetStoreFailure", Null)
                ELSE IF r.err = "RepoNotFound" THEN Goto(t, l, "resolve_negative")
                ELSE IF r.err # "nil" THEN Finish(t, l, r.err, Null)
                ELSE Goto(t, [l EXCEPT !.rec = Record(r.url)], "resolve_warm")
    /\ UNCHANGED <<now, storeVars, cache, genVars, pending, reapVars, main, issued, createdOK,
                   opsLeft>>

\* s.cache.SetNegative, whose error is dropped; return ErrURLNotFound.
ResolveNegative(t) ==
    /\ pc[t] = "resolve_negative"
    /\ \E fails \in CacheFails :
         /\ Fault(fails)
         /\ LET l == Called(loc[t], "cache.SetNegative", fails)
            IN  /\ cache' = IF fails THEN cache ELSE CacheSetNegative(l.code)
                /\ Finish(t, l, "RepoNotFound", Null)
    /\ UNCHANGED <<now, storeVars, genVars, pending, reapVars, main, issued, createdOK, opsLeft>>

\* s.cache.Set(ctx, code, url), whose error is dropped.
ResolveWarm(t) ==
    /\ pc[t] = "resolve_warm"
    /\ \E fails \in CacheFails :
         /\ Fault(fails)
         /\ LET l == Called(loc[t], "cache.Set", fails)
            IN  /\ cache' = IF fails THEN cache ELSE CacheSet(l.code, l.rec)
                /\ Goto(t, l, "resolve_click")
    /\ UNCHANGED <<now, storeVars, genVars, pending, reapVars, main, issued, createdOK, opsLeft>>

\* Variant: GetLongURL returning the error of s.recordClick.
ResolveClickStrict(t) ==
    /\ pc[t] = "resolve_click"
    /\ \E fails \in StoreFails :
         /\ StoreFault(fails)
         /\ LET l == Called(loc[t], "repo.RecordClick", fails)
            IN  /\ clicks' = IF fails THEN clicks ELSE RecordClick(l.code, now)
                /\ IF fails THEN Finish(t, l, "ClickStoreFailure", Null)
                   ELSE Finish(t, l, "nil", l.rec.long_url)
    /\ UNCHANGED <<now, rows, nextId, clickTx, cache, genVars, pending, reapVars, main, issued,
                   createdOK, opsLeft>>

\* s.recordClick, whose error is dropped; return the record.
ResolveClick(t) ==
    /\ pc[t] = "resolve_click"
    /\ \E fails \in StoreFails :
         /\ StoreFault(fails)
         /\ LET l == Called(loc[t], "repo.RecordClick", fails)
            IN  /\ clicks' = IF fails THEN clicks ELSE RecordClick(l.code, now)
                /\ Finish(t, l, "nil", l.rec.long_url)
    /\ UNCHANGED <<now, rows, nextId, clickTx, cache, genVars, pending, reapVars, main, issued,
                   createdOK, opsLeft>>

\* A recordClickAsync goroutine runs: s.recordClick under its own context.
AsyncClick ==
    \E code \in DOMAIN pending, fails \in StoreFails :
         /\ StoreFault(fails)
         /\ clicks' = IF fails THEN clicks ELSE RecordClick(code, now)
         /\ pending' = IF pending[code] = 1
                       THEN [c \in DOMAIN pending \ {code} |-> pending[c]]
                       ELSE [pending EXCEPT ![code] = @ - 1]
         /\ UNCHANGED <<now, rows, nextId, clickTx, cache, genVars, pc, loc, reapVars, main,
                        issued, createdOK, opsLeft>>

------------------------------------------------------------------------------
(* GetURLMetadata *)

MetadataStart(t, code) ==
    /\ FirstIdle(t) /\ opsLeft > 0
    /\ opsLeft' = opsLeft - 1
    /\ Goto(t, [IdleLoc EXCEPT !.op = "metadata", !.code = code, !.pre = Snapshot(code)],
            "metadata_cache")
    /\ UNCHANGED <<now, storeVars, cache, genVars, pending, reapVars, main, issued, createdOK,
                   faultsLeft, cacheDown, limVars>>

\* s.cache.Get: only err == nil is told apart from the rest.
MetadataCache(t) ==
    /\ pc[t] = "metadata_cache"
    /\ \E fails \in CacheFails :
         /\ Fault(fails)
         /\ LET l == Called(loc[t], "cache.Get", fails)
            IN  IF ~fails /\ CacheGet(l.code).err = "nil"
                THEN Goto(t, l, "metadata_store_hit")
                ELSE Goto(t, l, "metadata_store")
    /\ UNCHANGED <<now, storeVars, cache, genVars, pending, reapVars, main, issued, createdOK,
                   opsLeft>>

\* s.repo.GetURLMetadata after a cache hit: the metadata or the error.
MetadataStoreHit(t) ==
    /\ pc[t] = "metadata_store_hit"
    /\ \E fails \in StoreFails :
         /\ StoreFault(fails)
         /\ LET l == Called(loc[t], "repo.GetURLMetadata", fails)
                r == GetURLMetadata(l.code)
            IN  IF fails THEN Finish(t, l, "MetadataStoreFailure", Null)
                ELSE IF r.err # "nil" THEN Finish(t, l, r.err, Null)
                ELSE Finish(t, l, "nil", r.url.long_url)
    /\ UNCHANGED <<now, storeVars, cache, genVars, pending, reapVars, main, issued, createdOK,
                   opsLeft>>

\* s.repo.GetURLMetadata after a miss
MetadataStore(t) ==
    /\ pc[t] = "metadata_store"
    /\ \E fails \in StoreFails :
         /\ StoreFault(fails)
         /\ LET l == Called(loc[t], "repo.GetURLMetadata", fails)
                r == GetURLMetadata(l.code)
            IN  IF fails THEN Finish(t, l, "MetadataStoreFailure", Null)
                ELSE IF r.err # "nil" THEN Finish(t, l, r.err, Null)
                ELSE Goto(t, [l EXCEPT !.rec = Record(r.url)], "metadata_warm")
    /\ UNCHANGED <<now, storeVars, cache, genVars, pending, reapVars, main, issued, createdOK,
                   opsLeft>>

\* s.cache.Set with the basic info, whose error is dropped.
MetadataWarm(t) ==
    /\ pc[t] = "metadata_warm"
    /\ \E fails \in CacheFails :
         /\ Fault(fails)
         /\ LET l == Called(loc[t], "cache.Set", fails)
            IN  /\ cache' = IF fails THEN cache ELSE CacheSet(l.code, l.rec)
                /\ Finish(t, l, "nil", l.rec.long_url)
    /\ UNCHANGED <<now, storeVars, genVars, pending, reapVars, main, issued, createdOK, opsLeft>>

------------------------------------------------------------------------------
(* DeleteURL *)

DeleteStart(t, code) ==
    /\ FirstIdle(t) /\ opsLeft > 0
    /\ opsLeft' = opsLeft - 1
    /\ Goto(t, [IdleLoc EXCEPT !.op = "delete", !.code = code, !.pre = Snapshot(code)],
            "delete_store")
    /\ UNCHANGED <<now, storeVars, cache, genVars, pending, reapVars, main, issued, createdOK,
                   faultsLeft, cacheDown, limVars>>

\* s.repo.DeleteURL
DeleteStore(t) ==
    /\ pc[t] = "delete_store"
    /\ \E fails \in StoreFails :
         /\ StoreFault(fails)
         /\ LET l == Called(loc[t], "repo.DeleteURL", fails)
                r == DeleteURL(l.code)
            IN  IF fails THEN Finish(t, l, "DeleteStoreFailure", Null) /\ UNCHANGED rows
                ELSE IF r.err # "nil" THEN Finish(t, l, r.err, Null) /\ UNCHANGED rows
                ELSE rows' = r.rows /\ Goto(t, l, "delete_cache")
    /\ UNCHANGED <<now, nextId, clicks, clickTx, cache, genVars, pending, reapVars, main, issued, createdOK,
                   opsLeft>>

\* A DeleteURL that returned the error of s.cache.Delete.
DeleteCacheStrict(t) ==
    /\ pc[t] = "delete_cache"
    /\ \E fails \in CacheFails :
         /\ Fault(fails)
         /\ LET l == Called(loc[t], "cache.Delete", fails)
            IN  /\ cache' = IF fails THEN cache ELSE RedisDel({l.code})
                /\ Finish(t, l, IF fails THEN "CacheFailure" ELSE "nil", Null)
    /\ UNCHANGED <<now, storeVars, genVars, pending, reapVars, main, issued, createdOK, opsLeft>>

\* s.cache.Delete, whose error is dropped.
DeleteCache(t) ==
    /\ pc[t] = "delete_cache"
    /\ \E fails \in CacheFails :
         /\ Fault(fails)
         /\ LET l == Called(loc[t], "cache.Delete", fails)
            IN  /\ cache' = IF fails THEN cache ELSE RedisDel({l.code})
                /\ Finish(t, l, "nil", Null)
    /\ UNCHANGED <<now, storeVars, genVars, pending, reapVars, main, issued, createdOK, opsLeft>>

------------------------------------------------------------------------------
\* The handler writes the response; the task is free for the next request.
Return(t) ==
    /\ pc[t] = "done"
    /\ createdOK' = IF loc[t].op = "create" /\ loc[t].err = "nil"
                    THEN (loc[t].code :> loc[t].url) @@ createdOK
                    ELSE createdOK
    /\ pc' = [pc EXCEPT ![t] = "idle"]
    /\ loc' = [loc EXCEPT ![t] = IdleLoc]
    /\ UNCHANGED <<now, storeVars, cache, genVars, pending, reapVars, main, issued, opsLeft,
                   faultsLeft, cacheDown, limVars>>

------------------------------------------------------------------------------
(* func main: start-up, serving and shutdown *)

\* main blocked at <-quit: the server listens, the handles are open, the
\* background goroutines run and neither has called a closed handle.
MainStart ==
    [pc |-> "serving", up |-> TRUE, accepting |-> TRUE, inflight |-> 0,
     tickerStopped |-> FALSE, redisOpen |-> TRUE, dbOpen |-> TRUE,
     closedStoreCall |-> FALSE]

\* The goroutine of startBackgroundWorkers runs: its context is
\* context.Background(), which is never done, so it ends with the process.
WorkerRunning == main.up

\* The goroutine of Limiter.cleanup receives ticks: it ranges over
\* cleanupTicker.C, which Stop silences without closing.
SweeperTicking == main.up /\ ~main.tickerStopped

\* The server takes a request, and a handler returns.
HttpAccept ==
    /\ main.up /\ main.accepting /\ main.inflight < MaxInflight
    /\ main' = [main EXCEPT !.inflight = @ + 1]
    /\ UNCHANGED <<now, storeVars, cache, genVars, pc, loc, pending, reapVars, issued,
                   createdOK, opsLeft, faultsLeft, cacheDown, limVars>>

HttpDone ==
    /\ main.up /\ main.inflight > 0
    /\ main' = [main EXCEPT !.inflight = @ - 1]
    /\ UNCHANGED <<now, storeVars, cache, genVars, pc, loc, pending, reapVars, issued,
                   createdOK, opsLeft, faultsLeft, cacheDown, limVars>>

\* SIGINT or SIGTERM arrives; srv.Shutdown(ctx) closes the listeners.
Quit ==
    /\ main.up /\ main.pc = "serving"
    /\ main' = [main EXCEPT !.pc = "shutdown", !.accepting = FALSE]
    /\ UNCHANGED <<now, storeVars, cache, genVars, pc, loc, pending, reapVars, issued,
                   createdOK, opsLeft, faultsLeft, cacheDown, limVars>>

\* srv.Shutdown returns nil once no request is in flight; main returns and
\* its deferred calls run, last deferred first.
ShutdownDone ==
    /\ main.up /\ main.pc = "shutdown" /\ main.inflight = 0
    /\ main' = [main EXCEPT !.pc = "close_limiter"]
    /\ UNCHANGED <<now, storeVars, cache, genVars, pc, loc, pending, reapVars, issued,
                   createdOK, opsLeft, faultsLeft, cacheDown, limVars>>

\* ShutdownTimeout elapses with requests in flight: srv.Shutdown returns the
\* context's error and logger.Fatal exits the process.
ShutdownTimeout ==
    /\ main.up /\ main.pc = "shutdown" /\ main.inflight > 0
    /\ main' = [main EXCEPT !.pc = "exit", !.up = FALSE]
    /\ UNCHANGED <<now, storeVars, cache, genVars, pc, loc, pending, reapVars, issued,
                   createdOK, opsLeft, faultsLeft, cacheDown, limVars>>

\* defer rateLimiter.Close(): cleanupTicker.Stop().
CloseLimiter ==
    /\ main.up /\ main.pc = "close_limiter"
    /\ main' = [main EXCEPT !.pc = "close_redis", !.tickerStopped = TRUE]
    /\ UNCHANGED <<now, storeVars, cache, genVars, pc, loc, pending, reapVars, issued,
                   createdOK, opsLeft, faultsLeft, cacheDown, limVars>>

\* defer redisCache.Close()
CloseRedis ==
    /\ main.up /\ main.pc = "close_redis"
    /\ main' = [main EXCEPT !.pc = "close_db", !.redisOpen = FALSE]
    /\ UNCHANGED <<now, storeVars, cache, genVars, pc, loc, pending, reapVars, issued,
                   createdOK, opsLeft, faultsLeft, cacheDown, limVars>>

\* defer db.Close()
CloseDB ==
    /\ main.up /\ main.pc = "close_db"
    /\ main' = [main EXCEPT !.pc = "sync", !.dbOpen = FALSE]
    /\ UNCHANGED <<now, storeVars, cache, genVars, pc, loc, pending, reapVars, issued,
                   createdOK, opsLeft, faultsLeft, cacheDown, limVars>>

\* defer logger.Sync(); the process ends and its goroutines with it.
Exit ==
    /\ main.up /\ main.pc = "sync"
    /\ main' = [main EXCEPT !.pc = "exit", !.up = FALSE]
    /\ UNCHANGED <<now, storeVars, cache, genVars, pc, loc, pending, reapVars, issued,
                   createdOK, opsLeft, faultsLeft, cacheDown, limVars>>

\* ticker.C fires after db.Close(): CleanupExpiredURLs queries the closed
\* handle and GetExpiredURLs returns its error.
ReaperSelectClosed ==
    /\ WorkerRunning /\ ~main.dbOpen
    /\ reaperPc = "idle"
    /\ main' = [main EXCEPT !.closedStoreCall = TRUE]
    /\ reaperErr' = "GetExpiredFailure"
    /\ UNCHANGED <<now, storeVars, cache, genVars, pc, loc, pending, reaperPc, reaperCodes, issued,
                   createdOK, opsLeft, faultsLeft, cacheDown, limVars>>

------------------------------------------------------------------------------
(* startBackgroundWorkers and CleanupExpiredURLs *)

\* ticker.C fires and CleanupExpiredURLs calls s.repo.GetExpiredURLs(ctx, 100);
\* an error or an empty result ends the run.
ReaperSelect ==
    /\ WorkerRunning /\ main.dbOpen
    /\ reaperPc = "idle"
    /\ \E fails \in StoreFails :
         /\ StoreFault(fails)
         /\ IF fails
            THEN reaperErr' = "GetExpiredFailure" /\ UNCHANGED <<reaperPc, reaperCodes>>
            ELSE \E codes \in GetExpiredURLs(BatchLimit) :
                    /\ reaperCodes' = codes
                    /\ reaperPc' = IF codes = {} THEN "idle" ELSE "mark"
                    /\ reaperErr' = IF codes = {} THEN "nil" ELSE reaperErr
    /\ UNCHANGED <<now, storeVars, cache, genVars, pc, loc, pending, main, issued,
                   createdOK, opsLeft>>

\* s.repo.MarkURLsAsDeleted; an error ends the run.
ReaperMark ==
    /\ reaperPc = "mark"
    /\ \E fails \in StoreFails :
         /\ StoreFault(fails)
         /\ IF fails
            THEN /\ reaperPc' = "idle" /\ reaperCodes' = {}
                 /\ reaperErr' = "MarkFailure"
                 /\ UNCHANGED rows
            ELSE /\ rows' = MarkURLsAsDeleted(reaperCodes)
                 /\ reaperPc' = "invalidate"
                 /\ UNCHANGED <<reaperCodes, reaperErr>>
    /\ UNCHANGED <<now, nextId, clicks, clickTx, cache, genVars, pc, loc, pending, main,
                   issued, createdOK, opsLeft>>

\* s.cache.InvalidateExpired; its error is wrapped and returned.
ReaperInvalidate ==
    /\ reaperPc = "invalidate"
    /\ \E fails \in CacheFails :
         /\ Fault(fails)
         /\ cache' = IF fails THEN cache ELSE RedisDel(reaperCodes)
         /\ reaperErr' = IF fails THEN "InvalidateFailure" ELSE "nil"
    /\ reaperPc' = "idle"
    /\ reaperCodes' = {}
    /\ UNCHANGED <<now, storeVars, genVars, pc, loc, pending, main, issued, createdOK,
                   opsLeft>>

------------------------------------------------------------------------------
\* Time passes; Redis drops the keys whose time to live has elapsed.
Tick ==
    /\ now < MaxTime
    /\ now' = now + 1
    /\ cache' = RedisExpire(now + 1)
    /\ UNCHANGED <<storeVars, genVars, pc, loc, pending, reapVars, main, issued, createdOK,
                   opsLeft, faultsLeft, cacheDown, limVars>>

(***************************************************************************)
(* internal/rate: Limiter.  Token buckets hold whole tokens; LimRefill is   *)
(* the passing of one unit of time, in which the global bucket gains        *)
(* GlobalRefill tokens and every per-client bucket PerIPRefill, up to       *)
(* BurstSize.  The cleanup ticker's interval is the unit of IdleEviction.   *)
(***************************************************************************)
\* config.BurstSize (default 20), scaled.
BurstSize == 2
\* config.GlobalRPS and config.PerIPRPS per unit of time (defaults 100 and
\* 10 per second), scaled.
GlobalRefill == 2
PerIPRefill == 1
\* The 10 minutes of cleanup's cutoff, in ticker intervals, scaled.
IdleEviction == 1

\* The client identities getClientIP yields.
Clients == {"A", "B"}

\* Calls of Allow followed statement by statement, and the state of one
\* before it is made: ptr is the *rate.Limiter getIPLimiter returned, an
\* index into limHeap, 0 for nil; missed tells that the lookup under RLock
\* found the key absent.
MaxReqs == 3
NoRequest == [ip |-> "none", pc |-> "idle", ptr |-> 0, missed |-> FALSE, result |-> FALSE]
NoRequests == [r \in 1..MaxReqs |-> NoRequest]

NoCall == [done |-> FALSE, globalHad |-> FALSE, clientHad |-> FALSE, touched |-> FALSE,
           otherEmpty |-> FALSE, result |-> FALSE, age |-> 0]

\* NewLimiter: a full global bucket and an empty table.
LimiterNew ==
    /\ limGlobal = BurstSize
    /\ limTable = <<>>
    /\ limPc = [c \in Clients |-> "idle"]
    /\ limLast = [c \in Clients |-> NoCall]
    /\ limQuiet = 0
    /\ limShadow = [c \in Clients |-> BurstSize]
    /\ limHeap = <<>> /\ limMap = <<>> /\ limReq = NoRequests

\* Variant: one limiter kept for all clients.
IPLimiterKeyShared(ip) == "shared"

\* The key under which getIPLimiter keeps the limiter of `ip`.
IPLimiterKey(ip) == ip

\* getIPLimiter: the table with the limiter of `ip`, created full if absent.
getIPLimiter(ip) ==
    IF IPLimiterKey(ip) \in DOMAIN limTable THEN limTable
    ELSE (IPLimiterKey(ip) :> BurstSize) @@ limTable

\* The tokens the bucket kept for client c holds; a client without entry
\* gets a full bucket at its next request.
BucketOf(c) == IF c \in DOMAIN limTable THEN limTable[c] ELSE BurstSize

\* limShadow[c] is, for the clients it is kept for, what the bucket of c
\* would hold if its limiter were never replaced: full at first, PerIPRefill more per unit of time up to
\* BurstSize, one less per admitted request.  It cannot pay for a request
\* exactly when the requests admitted in some interval of length T exceed
\* BurstSize + PerIPRefill * T.

\* Variant: Allow fetching the client's limiter before the global check.
AllowGlobalEager(c) ==
    /\ limPc[c] = "idle"
    /\ limTable' = getIPLimiter(c)
    /\ IF limGlobal >= 1
       THEN /\ limGlobal' = limGlobal - 1
            /\ limPc' = [limPc EXCEPT ![c] = "client"]
            /\ limLast' = [limLast EXCEPT ![c] = [NoCall EXCEPT !.globalHad = TRUE]]
       ELSE /\ limLast' = [limLast EXCEPT ![c] =
                             [NoCall EXCEPT !.done = TRUE, !.touched = TRUE]]
            /\ UNCHANGED <<limGlobal, limPc>>
    /\ limQuiet' = 0
    /\ UNCHANGED <<limShadow, fineVars>>
    /\ UNCHANGED <<now, storeVars, cache, genVars, pc, loc, pending, reapVars, main, issued,
                   createdOK, opsLeft, faultsLeft, cacheDown>>

\* Allow: l.globalLimiter.Allow().  Without a token the call returns false.
AllowGlobal(c) ==
    /\ limPc[c] = "idle"
    /\ IF limGlobal >= 1
       THEN /\ limGlobal' = limGlobal - 1
            /\ limPc' = [limPc EXCEPT ![c] = "client"]
            /\ limLast' = [limLast EXCEPT ![c] = [NoCall EXCEPT !.globalHad = TRUE]]
       ELSE /\ limLast' = [limLast EXCEPT ![c] = [NoCall EXCEPT !.done = TRUE]]
            /\ UNCHANGED <<limGlobal, limPc>>
    /\ limQuiet' = 0
    /\ UNCHANGED <<limShadow, fineVars>>
    /\ UNCHANGED limTable
    /\ UNCHANGED <<now, storeVars, cache, genVars, pc, loc, pending, reapVars, main, issued,
                   createdOK, opsLeft, faultsLeft, cacheDown>>

\* Variant: Allow giving the global token back when the client's bucket
\* denies.
AllowClientRefund(c) ==
    /\ limPc[c] = "client"
    /\ LET table == getIPLimiter(c)
           key   == IPLimiterKey(c)
           ok    == table[key] >= 1
       IN  /\ limTable' = IF ok THEN [table EXCEPT ![key] = @ - 1] ELSE table
           /\ limLast' = [limLast EXCEPT ![c] =
                            [done |-> TRUE, globalHad |-> TRUE,
                             clientHad |-> BucketOf(c) >= 1, touched |-> TRUE,
                             otherEmpty |-> \E a \in DOMAIN limPc \ {c} : BucketOf(a) = 0,
                             result |-> ok, age |-> 0]]
           /\ limGlobal' = IF ok THEN limGlobal ELSE Min(BurstSize, limGlobal + 1)
           /\ limShadow' = IF ok /\ c \in DOMAIN limShadow
                           THEN [limShadow EXCEPT ![c] = IF @ >= 0 THEN @ - 1 ELSE @]
                           ELSE limShadow
    /\ limPc' = [limPc EXCEPT ![c] = "idle"]
    /\ limQuiet' = 0
    /\ UNCHANGED fineVars
    /\ UNCHANGED <<now, storeVars, cache, genVars, pc, loc, pending, reapVars, main, issued,
                   createdOK, opsLeft, faultsLeft, cacheDown>>

\* Allow: l.getIPLimiter(ip) and ipLimiter.Allow().
AllowClient(c) ==
    /\ limPc[c] = "client"
    /\ LET table == getIPLimiter(c)
           key   == IPLimiterKey(c)
           ok    == table[key] >= 1
       IN  /\ limTable' = IF ok THEN [table EXCEPT ![key] = @ - 1] ELSE table
           /\ limLast' = [limLast EXCEPT ![c] =
                            [done |-> TRUE, globalHad |-> TRUE,
                             clientHad |-> BucketOf(c) >= 1, touched |-> TRUE,
                             otherEmpty |-> \E a \in DOMAIN limPc \ {c} : BucketOf(a) = 0,
                             result |-> ok, age |-> 0]]
           /\ limShadow' = IF ok /\ c \in DOMAIN limShadow
                           THEN [limShadow EXCEPT ![c] = IF @ >= 0 THEN @ - 1 ELSE @]
                           ELSE limShadow
    /\ limPc' = [limPc EXCEPT ![c] = "idle"]
    /\ limQuiet' = 0
    /\ UNCHANGED fineVars
    /\ UNCHANGED limGlobal
    /\ UNCHANGED <<now, storeVars, cache, genVars, pc, loc, pending, reapVars, main, issued,
                   createdOK, opsLeft, faultsLeft, cacheDown>>

\* Time passes: rate.Limiter credits the tokens earned, up to the burst.
LimRefill ==
    /\ limGlobal' = Min(BurstSize, limGlobal + GlobalRefill)
    /\ limTable' = [k \in DOMAIN limTable |-> Min(BurstSize, limTable[k] + PerIPRefill)]
    /\ limHeap' = [i \in DOMAIN limHeap |->
                     [limHeap[i] EXCEPT !.tokens = Min(BurstSize, @ + PerIPRefill)]]
    /\ limShadow' = [c \in DOMAIN limShadow |-> Min(BurstSize, limShadow[c] + PerIPRefill)]
    /\ UNCHANGED <<limPc, limLast, limQuiet, limMap, limReq>>
    /\ UNCHANGED <<now, storeVars, cache, genVars, pc, loc, pending, reapVars, main, issued,
                   createdOK, opsLeft, faultsLeft, cacheDown>>

\* Variant: the comparison of cleanup turned around.
CleanupRemovesNever(ip, elapsed) ==
    LET cutoff == now - IdleEviction
    IN  (now + elapsed) - cutoff < 0

\* cleanup's test for removing the limiter of `ip`: time.Since(cutoff) > 0
\* with cutoff = time.Now().Add(-10 * time.Minute); `elapsed` is the time
\* between the two readings of the clock.
CleanupRemoves(ip, elapsed) ==
    LET cutoff == now - IdleEviction
    IN  (now + elapsed) - cutoff > 0

\* cleanupTicker fires: the loop of cleanup under l.mu.  The age of a
\* client's last call is the number of sweeps since it reached the table.
LimSweep ==
    /\ SweeperTicking
    /\ \E elapsed \in 0..1 :
         /\ limTable' = [k \in {ip \in DOMAIN limTable : ~CleanupRemoves(ip, elapsed)}
                           |-> limTable[k]]
         /\ limMap' = [k \in {ip \in DOMAIN limMap : ~CleanupRemoves(ip, elapsed)}
                         |-> limMap[k]]
    /\ limQuiet' = Min(IdleEviction + 2, limQuiet + 1)
    /\ limLast' = [c \in DOMAIN limLast |->
                     IF limLast[c].touched
                     THEN [limLast[c] EXCEPT !.age = Min(IdleEviction + 1, @ + 1)]
                     ELSE limLast[c]]
    /\ UNCHANGED <<limGlobal, limPc, limShadow, limHeap, limReq>>
    /\ UNCHANGED <<now, storeVars, cache, genVars, pc, loc, pending, reapVars, main, issued,
                   createdOK, opsLeft, faultsLeft, cacheDown>>

(***************************************************************************)
(* Allow statement by statement, for concurrent calls of one client: the   *)
(* global check, getIPLimiter's lookup under RLock, its double-checked     *)
(* insert under Lock, and Allow on the limiter returned.                   *)
(***************************************************************************)
RestUnchanged ==
    UNCHANGED <<now, storeVars, cache, genVars, pc, loc, pending, reapVars, main, issued,
                createdOK, opsLeft, faultsLeft, cacheDown>>

\* RateLimitMiddleware calls limiter.Allow(ip).
AllowCall(r, ip) ==
    /\ limReq[r].pc = "idle"
    /\ \A q \in 1..(r - 1) : limReq[q].pc # "idle"
    /\ limReq' = [limReq EXCEPT ![r] = [NoRequest EXCEPT !.ip = ip, !.pc = "global"]]
    /\ UNCHANGED <<limGlobal, limTable, limPc, limLast, limQuiet, limShadow, limHeap, limMap>>
    /\ RestUnchanged

\* if !l.globalLimiter.Allow() { return false }
AllowGlobalLimiter(r) ==
    /\ limReq[r].pc = "global"
    /\ IF limGlobal >= 1
       THEN /\ limGlobal' = limGlobal - 1
            /\ limReq' = [limReq EXCEPT ![r].pc = "rlock"]
       ELSE /\ limReq' = [limReq EXCEPT ![r].pc = "done", ![r].result = FALSE]
            /\ UNCHANGED limGlobal
    /\ UNCHANGED <<limTable, limPc, limLast, limQuiet, limShadow, limHeap, limMap>>
    /\ RestUnchanged

\* getIPLimiter: limiter, exists := l.ipLimiters[ip] under l.mu.RLock().
getIPLimiterRLock(r) ==
    /\ limReq[r].pc = "rlock"
    /\ LET ip == limReq[r].ip
       IN  limReq' = IF ip \in DOMAIN limMap
                     THEN [limReq EXCEPT ![r].ptr = limMap[ip], ![r].pc = "allow"]
                     ELSE [limReq EXCEPT ![r].missed = TRUE, ![r].pc = "lock"]
    /\ UNCHANGED <<limGlobal, limTable, limPc, limLast, limQuiet, limShadow, limHeap, limMap>>
    /\ RestUnchanged

\* Variant: getIPLimiter inserting without the second lookup.
getIPLimiterLockUnchecked(r) ==
    /\ limReq[r].pc = "lock"
    /\ LET ip == limReq[r].ip
           n  == Len(limHeap) + 1
       IN  /\ limHeap' = Append(limHeap, [ip |-> ip, tokens |-> BurstSize])
           /\ limMap' = [k \in DOMAIN limMap \cup {ip} |-> IF k = ip THEN n ELSE limMap[k]]
           /\ limReq' = [limReq EXCEPT ![r].ptr = n, ![r].pc = "allow"]
    /\ UNCHANGED <<limGlobal, limTable, limPc, limLast, limQuiet, limShadow>>
    /\ RestUnchanged

\* getIPLimiter under l.mu.Lock(): the second lookup, and rate.NewLimiter
\* and the insert if the key is still absent.
getIPLimiterLock(r) ==
    /\ limReq[r].pc = "lock"
    /\ LET ip == limReq[r].ip
           n  == Len(limHeap) + 1
       IN  IF ip \in DOMAIN limMap
           THEN /\ limReq' = [limReq EXCEPT ![r].ptr = limMap[ip], ![r].pc = "allow"]
                /\ UNCHANGED <<limHeap, limMap>>
           ELSE /\ limHeap' = Append(limHeap, [ip |-> ip, tokens |-> BurstSize])
                /\ limMap' = (ip :> n) @@ limMap
                /\ limReq' = [limReq EXCEPT ![r].ptr = n, ![r].pc = "allow"]
    /\ UNCHANGED <<limGlobal, limTable, limPc, limLast, limQuiet, limShadow>>
    /\ RestUnchanged

\* return ipLimiter.Allow()
AllowIPLimiter(r) ==
    /\ limReq[r].pc = "allow"
    /\ LET p  == limReq[r].ptr
           ok == limHeap[p].tokens >= 1
       IN  /\ limHeap' = IF ok THEN [limHeap EXCEPT ![p].tokens = @ - 1] ELSE limHeap
           /\ limReq' = [limReq EXCEPT ![r].pc = "done", ![r].result = ok]
    /\ UNCHANGED <<limGlobal, limTable, limPc, limLast, limQuiet, limShadow, limMap>>
    /\ RestUnchanged

Init ==
    /\ now = 0
    /\ rows = {} /\ nextId = 1 /\ clicks = <<>> /\ clickTx = <<>>
    /\ cache = <<>>
    /\ xidCounter = 0
    /\ xidMachinePid = 0
    /\ genLast = NoGenCall
    /\ pc = [t \in Tasks |-> "idle"]
    /\ loc = [t \in Tasks |-> IdleLoc]
    /\ pending = <<>>
    /\ reaperPc = "idle" /\ reaperCodes = {} /\ reaperErr = "nil"
    /\ main = MainStart
    /\ issued = <<>>
    /\ createdOK = <<>>
    /\ opsLeft = MaxOps
    /\ faultsLeft = MaxFaults
    /\ cacheDown = FALSE
    /\ LimiterNew

Next ==
    \/ \E t \in DOMAIN pc, u \in RequestURLs, alias \in RequestAliases,
          exp \in RequestExpiry : CreateStart(t, u, alias, exp)
    \/ \E t \in DOMAIN pc : CreateExistsCache(t)
    \/ \E t \in DOMAIN pc : CreateExistsStore(t)
    \/ \E t \in DOMAIN pc : CreateStore(t)
    \/ \E t \in DOMAIN pc : CreateWarm(t)
    \/ \E t \in DOMAIN pc, code \in RequestCodes : ResolveStart(t, code)
    \/ \E t \in DOMAIN pc : ResolveCache(t)
    \/ \E t \in DOMAIN pc : ResolveStore(t)
    \/ \E t \in DOMAIN pc : ResolveNegative(t)
    \/ \E t \in DOMAIN pc : ResolveWarm(t)
    \/ \E t \in DOMAIN pc : ResolveClick(t)
    \/ AsyncClick
    \/ \E t \in DOMAIN pc, code \in RequestCodes : MetadataStart(t, code)
    \/ \E t \in DOMAIN pc : MetadataCache(t)
    \/ \E t \in DOMAIN pc : MetadataStoreHit(t)
    \/ \E t \in DOMAIN pc : MetadataStore(t)
    \/ \E t \in DOMAIN pc : MetadataWarm(t)
    \/ \E t \in DOMAIN pc, code \in RequestCodes : DeleteStart(t, code)
    \/ \E t \in DOMAIN pc : DeleteStore(t)
    \/ \E t \in DOMAIN pc : DeleteCache(t)
    \/ \E t \in DOMAIN pc : Return(t)
    \/ ReaperSelect \/ ReaperMark \/ ReaperInvalidate
    \/ Tick

Spec == Init /\ [][Next]_vars

(***************************************************************************)
(* One client issuing its requests one after the other: a longer session   *)
(* than Spec's, without concurrent requests; the store always answers, and *)
(* Redis is either up or down for the whole session.                       *)
(***************************************************************************)
InitSeq ==
    /\ now = 0
    /\ rows = {} /\ nextId = 1 /\ clicks = <<>> /\ clickTx = <<>>
    /\ cache = <<>>
    /\ xidCounter = 0
    /\ xidMachinePid = 0
    /\ genLast = NoGenCall
    /\ pc = [t \in {1} |-> "idle"]
    /\ loc = [t \in {1} |-> IdleLoc]
    /\ pending = <<>>
    /\ reaperPc = "idle" /\ reaperCodes = {} /\ reaperErr = "nil"
    /\ main = MainStart
    /\ issued = <<>>
    /\ createdOK = <<>>
    /\ opsLeft = MaxOps + 1
    /\ faultsLeft = 0
    /\ cacheDown \in BOOLEAN
    /\ LimiterNew

SpecSeq == InitSeq /\ [][Next]_vars

(***************************************************************************)
(* A burst: concurrent requests arriving within one second, so that the    *)
(* clock and the reaper's ticker do not move meanwhile.                    *)
(***************************************************************************)
InitBurst ==
    /\ now = 0
    /\ rows = {} /\ nextId = 1 /\ clicks = <<>> /\ clickTx = <<>>
    /\ cache = <<>>
    /\ xidCounter = 0
    /\ xidMachinePid = 0
    /\ genLast = NoGenCall
    /\ pc = [t \in Tasks |-> "idle"]
    /\ loc = [t \in Tasks |-> IdleLoc]
    /\ pending = <<>>
    /\ reaperPc = "idle" /\ reaperCodes = {} /\ reaperErr = "nil"
    /\ main = MainStart
    /\ issued = <<>>
    /\ createdOK = <<>>
    /\ opsLeft = MaxOps + 1
    /\ faultsLeft = 0
    /\ cacheDown = FALSE
    /\ LimiterNew

NextBurst ==
    \/ \E t \in DOMAIN pc, u \in RequestURLs, alias \in RequestAliases,
          exp \in RequestExpiry : CreateStart(t, u, alias, exp)
    \/ \E t \in DOMAIN pc : CreateExistsCache(t)
    \/ \E t \in DOMAIN pc : CreateExistsStore(t)
    \/ \E t \in DOMAIN pc : CreateStore(t)
    \/ \E t \in DOMAIN pc : CreateWarm(t)
    \/ \E t \in DOMAIN pc, code \in RequestCodes : ResolveStart(t, code)
    \/ \E t \in DOMAIN pc : ResolveCache(t)
    \/ \E t \in DOMAIN pc : ResolveStore(t)
    \/ \E t \in DOMAIN pc : ResolveNegative(t)
    \/ \E t \in DOMAIN pc : ResolveWarm(t)
    \/ \E t \in DOMAIN pc : ResolveClick(t)
    \/ AsyncClick
    \/ \E t \in DOMAIN pc, code \in RequestCodes : DeleteStart(t, code)
    \/ \E t \in DOMAIN pc : DeleteStore(t)
    \/ \E t \in DOMAIN pc : DeleteCache(t)
    \/ \E t \in DOMAIN pc : Return(t)

SpecBurst == InitBurst /\ [][NextBurst]_vars

(***************************************************************************)
(* The generator on its own: a process calling GenerateCode repeatedly.    *)
(***************************************************************************)
InitGen ==
    /\ now = 0
    /\ rows = {} /\ nextId = 1 /\ clicks = <<>> /\ clickTx = <<>>
    /\ cache = <<>>
    /\ xidCounter \in 0..(Pow(2, CounterBits) - 1)
    /\ xidMachinePid \in 0..(Pow(2, MachinePidBits) - 1)
    /\ genLast = NoGenCall
    /\ pc = <<>> /\ loc = <<>> /\ pending = <<>>
    /\ reaperPc = "idle" /\ reaperCodes = {} /\ reaperErr = "nil"
    /\ main = MainStart
    /\ issued = <<>>
    /\ createdOK = <<>>
    /\ opsLeft = 0
    /\ faultsLeft = 0
    /\ cacheDown = FALSE
    /\ LimiterNew

GenCall ==
    /\ Len(issued) < MaxIssued
    /\ \E code \in GenerateCode(NextXid) : issued' = Append(issued, code)
    /\ XidAdvance
    /\ UNCHANGED <<now, storeVars, cache, xidMachinePid, genLast, pc, loc, pending, reapVars, main,
                   createdOK, opsLeft, faultsLeft, cacheDown, limVars>>

GenTick ==
    /\ now < MaxTime
    /\ now' = now + 1
    /\ UNCHANGED <<storeVars, cache, genVars, pc, loc, pending, reapVars, main, issued,
                   createdOK, opsLeft, faultsLeft, cacheDown, limVars>>

NextGen == GenCall \/ GenTick

SpecGen == InitGen /\ [][NextGen]_vars

(***************************************************************************)
(* The rate limiter on its own, started in any state it can be in: any     *)
(* tokens in the global bucket and any per-client limiters in the table.   *)
(***************************************************************************)
InitLimiter ==
    /\ now = 0
    /\ rows = {} /\ nextId = 1 /\ clicks = <<>> /\ clickTx = <<>>
    /\ cache = <<>>
    /\ xidCounter = 0
    /\ xidMachinePid = 0
    /\ genLast = NoGenCall
    /\ pc = <<>> /\ loc = <<>> /\ pending = <<>>
    /\ reaperPc = "idle" /\ reaperCodes = {} /\ reaperErr = "nil"
    /\ main = MainStart
    /\ issued = <<>>
    /\ createdOK = <<>>
    /\ opsLeft = 0
    /\ faultsLeft = 0
    /\ cacheDown = FALSE
    /\ limGlobal \in 0..BurstSize
    /\ \E ips \in SUBSET Clients : limTable \in [ips -> 0..BurstSize]
    /\ limPc = [c \in Clients |-> "idle"]
    /\ limLast = [c \in Clients |-> NoCall]
    /\ limQuiet = 0
    /\ limShadow = [c \in Clients |-> BucketOf(c)]
    /\ limHeap = <<>> /\ limMap = <<>> /\ limReq = NoRequests

NextLimiter ==
    \/ \E c \in Clients : AllowGlobal(c)
    \/ \E c \in Clients : AllowClient(c)
    \/ LimRefill
    \/ LimSweep

SpecLimiter == InitLimiter /\ [][NextLimiter]_vars

(***************************************************************************)
(* A burst of Allow calls, concurrent and of clients the table does not    *)
(* know yet, within one interval of the cleanup ticker.                    *)
(***************************************************************************)
InitBuckets ==
    /\ now = 0
    /\ rows = {} /\ nextId = 1 /\ clicks = <<>> /\ clickTx = <<>>
    /\ cache = <<>>
    /\ xidCounter = 0
    /\ xidMachinePid = 0
    /\ genLast = NoGenCall
    /\ pc = <<>> /\ loc = <<>> /\ pending = <<>>
    /\ reaperPc = "idle" /\ reaperCodes = {} /\ reaperErr = "nil"
    /\ main = MainStart
    /\ issued = <<>>
    /\ createdOK = <<>>
    /\ opsLeft = 0
    /\ faultsLeft = 0
    /\ cacheDown = FALSE
    /\ LimiterNew

NextBuckets ==
    \/ \E r \in 1..MaxReqs, ip \in Clients : AllowCall(r, ip)
    \/ \E r \in 1..MaxReqs : AllowGlobalLimiter(r)
    \/ \E r \in 1..MaxReqs : getIPLimiterRLock(r)
    \/ \E r \in 1..MaxReqs : getIPLimiterLock(r)
    \/ \E r \in 1..MaxReqs : AllowIPLimiter(r)
    \/ LimRefill

SpecBuckets == InitBuckets /\ [][NextBuckets]_vars

(***************************************************************************)
(* Creates with long URLs of every kind validateURL tells apart.           *)
(***************************************************************************)
ValidationURLs == {UrlA, UrlLong, UrlUnparsed, UrlFtp, UrlNoHost, UrlBlocked}

InitValidate ==
    /\ now = 0
    /\ rows = {} /\ nextId = 1 /\ clicks = <<>> /\ clickTx = <<>>
    /\ cache = <<>>
    /\ xidCounter = 0
    /\ xidMachinePid = 0
    /\ genLast = NoGenCall
    /\ pc = [t \in {1} |-> "idle"]
    /\ loc = [t \in {1} |-> IdleLoc]
    /\ pending = <<>>
    /\ reaperPc = "idle" /\ reaperCodes = {} /\ reaperErr = "nil"
    /\ main = MainStart
    /\ issued = <<>>
    /\ createdOK = <<>>
    /\ opsLeft = MaxOps
    /\ faultsLeft = MaxFaults
    /\ cacheDown = FALSE
    /\ LimiterNew

NextValidate ==
    \/ \E t \in DOMAIN pc, u \in ValidationURLs, alias \in RequestAliases,
          exp \in RequestExpiry : CreateStart(t, u, alias, exp)
    \/ \E t \in DOMAIN pc : CreateExistsCache(t)
    \/ \E t \in DOMAIN pc : CreateExistsStore(t)
    \/ \E t \in DOMAIN pc : CreateStore(t)
    \/ \E t \in DOMAIN pc : CreateWarm(t)
    \/ \E t \in DOMAIN pc : Return(t)

SpecValidate == InitValidate /\ [][NextValidate]_vars

(***************************************************************************)
(* RecordClick statements running concurrently in the database.  The       *)
(* event's ts is fixed when the statement's transaction begins; the row    *)
(* and the trigger's upsert of click_stats follow when it executes, and    *)
(* statements that began in one order may execute in the other.            *)
(***************************************************************************)
ClickCount(code) == IF code \in DOMAIN clicks THEN Len(clicks[code].events) ELSE 0

OpenClicks ==
    LET RECURSIVE Sum(_)
        Sum(S) == IF S = {} THEN 0
                  ELSE LET x == CHOOSE y \in S : TRUE IN clickTx[x] + Sum(S \ {x})
    IN  Sum(DOMAIN clickTx)

RecordedClicks ==
    LET RECURSIVE Sum(_)
        Sum(S) == IF S = {} THEN 0
                  ELSE LET x == CHOOSE y \in S : TRUE IN ClickCount(x) + Sum(S \ {x})
    IN  Sum(DOMAIN clicks)

\* QueryRowContext sends the INSERT: its transaction begins, NOW() is fixed.
ClickBegin(code) ==
    /\ OpenClicks + RecordedClicks < MaxClicks
    /\ LET tx == <<code, now>>
       IN  clickTx' = (tx :> (IF tx \in DOMAIN clickTx THEN clickTx[tx] + 1 ELSE 1)) @@ clickTx
    /\ UNCHANGED <<now, rows, nextId, clicks, cache, genVars, pc, loc, pending, reapVars, main,
                   issued, createdOK, opsLeft, faultsLeft, cacheDown, limVars>>

\* The statement executes: the row is inserted, the trigger runs, and the
\* transaction commits.
ClickInsert ==
    \E tx \in DOMAIN clickTx :
        /\ clicks' = RecordClick(tx[1], tx[2])
        /\ clickTx' = IF clickTx[tx] = 1
                      THEN [x \in DOMAIN clickTx \ {tx} |-> clickTx[x]]
                      ELSE [clickTx EXCEPT ![tx] = @ - 1]
        /\ UNCHANGED <<now, rows, nextId, cache, genVars, pc, loc, pending, reapVars, main,
                       issued, createdOK, opsLeft, faultsLeft, cacheDown, limVars>>

InitClicks ==
    /\ now = 0
    /\ rows = {} /\ nextId = 1 /\ clicks = <<>> /\ clickTx = <<>>
    /\ cache = <<>>
    /\ xidCounter = 0
    /\ xidMachinePid = 0
    /\ genLast = NoGenCall
    /\ pc = [t \in {1} |-> "idle"]
    /\ loc = [t \in {1} |-> IdleLoc]
    /\ pending = <<>>
    /\ reaperPc = "idle" /\ reaperCodes = {} /\ reaperErr = "nil"
    /\ main = MainStart
    /\ issued = <<>>
    /\ createdOK = <<>>
    /\ opsLeft = 1
    /\ faultsLeft = 0
    /\ cacheDown = FALSE
    /\ LimiterNew

NextClicks ==
    \/ \E t \in DOMAIN pc, u \in {UrlA}, alias \in RequestAliases, exp \in {NoExpiry} :
          CreateStart(t, u, alias, exp)
    \/ \E t \in DOMAIN pc : CreateExistsCache(t)
    \/ \E t \in DOMAIN pc : CreateExistsStore(t)
    \/ \E t \in DOMAIN pc : CreateStore(t)
    \/ \E t \in DOMAIN pc : CreateWarm(t)
    \/ \E t \in DOMAIN pc : Return(t)
    \/ \E code \in RequestCodes : ClickBegin(code)
    \/ ClickInsert
    \/ Tick

SpecClicks == InitClicks /\ [][NextClicks]_vars

(***************************************************************************)
(* One method of a Generator called directly, as each case of the         *)
(* package's tests does.  GenerateCode is also applied to identifiers      *)
(* whose base-62 form is shorter than the code length, so that its padding *)
(* branch is taken.                                                        *)
(***************************************************************************)
\* Identifiers with 0, 1, 2 and 3 base-62 digits.
SmallIds == {0, 1, Base - 1, Base, Base * Base - 1, Base * Base}

\* Aliases of up to MaxAliasLen characters over 'A', 'B', ' ' and '@', at
\* most MaxReplaced of them outside the alphabet.
AliasChars == {10, 11, Space, Other}
CustomInputs ==
    {a \in UNION {[1..n -> AliasChars] : n \in 0..MaxAliasLen} :
        Cardinality({i \in 1..Len(a) : a[i] \notin Base62}) <= MaxReplaced}

\* The table of TestValidateCode: "abc123", "AbC123", "abc",
\* "abcdefghijklmnop", "abc@123", "" and "abc 123" with the result expected.
TestValidateCode ==
    {[code |-> <<36, 37, 38, 1, 2, 3>>,        valid |-> TRUE],
     [code |-> <<10, 37, 12, 1, 2, 3>>,        valid |-> TRUE],
     [code |-> <<36, 37, 38>>,                 valid |-> FALSE],
     [code |-> [i \in 1..16 |-> 35 + i],       valid |-> FALSE],
     [code |-> <<36, 37, 38, Other, 1, 2, 3>>, valid |-> FALSE],
     [code |-> <<>>,                           valid |-> FALSE],
     [code |-> <<36, 37, 38, Space, 1, 2, 3>>, valid |-> FALSE]}

\* Codes given to ValidateCode: those of the test table, and for every
\* length up to MaxValidateLen a valid code and one with a '@' or a ' ' in it.
ValidateInputs ==
    {t.code : t \in TestValidateCode}
    \cup {[i \in 1..n |-> 36] : n \in 0..MaxValidateLen}
    \cup {[i \in 1..n |-> IF i = k THEN x ELSE 36] :
             n \in 1..MaxValidateLen, k \in {1, 2}, x \in {Space, Other}}

CallGenerateCode ==
    /\ genLast = NoGenCall
    /\ \E id \in SmallIds \cup {NextXid} : \E code \in GenerateCode(id) :
          genLast' = [NoGenCall EXCEPT !.fn = "GenerateCode", !.id = id, !.out = code]
    /\ XidAdvance
    /\ UNCHANGED <<now, storeVars, cache, xidMachinePid, pc, loc, pending, reapVars, main,
                   issued, createdOK, opsLeft, faultsLeft, cacheDown, limVars>>

CallGenerateCustomCode ==
    /\ genLast = NoGenCall
    /\ \E custom \in CustomInputs : \E code \in GenerateCustomCode(custom, NextXid) :
          /\ genLast' = [NoGenCall EXCEPT !.fn = "GenerateCustomCode", !.id = NextXid,
                                          !.in = custom, !.out = code]
          /\ IF Len(TrimSpace(custom)) = 0 THEN XidAdvance ELSE UNCHANGED xidCounter
    /\ UNCHANGED <<now, storeVars, cache, xidMachinePid, pc, loc, pending, reapVars, main,
                   issued, createdOK, opsLeft, faultsLeft, cacheDown, limVars>>

CallValidateCode ==
    /\ genLast = NoGenCall
    /\ \E code \in ValidateInputs :
          genLast' = [NoGenCall EXCEPT !.fn = "ValidateCode", !.in = code,
                                       !.ok = ValidateCode(code)]
    /\ UNCHANGED <<now, storeVars, cache, xidCounter, xidMachinePid, pc, loc, pending,
                   reapVars, main, issued, createdOK, opsLeft, faultsLeft, cacheDown, limVars>>

InitCodes ==
    /\ now = 0
    /\ rows = {} /\ nextId = 1 /\ clicks = <<>> /\ clickTx = <<>>
    /\ cache = <<>>
    /\ xidCounter \in 0..(Pow(2, CounterBits) - 1)
    /\ xidMachinePid = 0
    /\ genLast = NoGenCall
    /\ pc = <<>> /\ loc = <<>> /\ pending = <<>>
    /\ reaperPc = "idle" /\ reaperCodes = {} /\ reaperErr = "nil"
    /\ main = MainStart
    /\ issued = <<>>
    /\ createdOK = <<>>
    /\ opsLeft = 0
    /\ faultsLeft = 0
    /\ cacheDown = FALSE
    /\ LimiterNew

NextCodes ==
    \/ CallGenerateCode
    \/ CallGenerateCustomCode
    \/ CallValidateCode

SpecCodes == InitCodes /\ [][NextCodes]_vars

(***************************************************************************)
(* RateLimitMiddleware in front of the limiter.  A header value is the     *)
(* sequence of its comma-separated entries, <<>> when the header is        *)
(* absent; a client identity is a header value or the peer address.        *)
(***************************************************************************)
\* The requests: X-Forwarded-For, X-Real-IP and the transport peer.
HttpRequests ==
    [xff    : {<<>>, <<"A", "B">>, <<"A", "C">>},
     realIP : {<<>>, <<"R">>},
     peer   : {<<"P">>}]

\* getClientIP: the X-Forwarded-For value cut at commaIdx, which is
\* len(forwardedFor), so the whole value; else X-Real-IP; else c.ClientIP().
getClientIP(r) ==
    IF r.xff # <<>>
    THEN LET commaIdx == Len(r.xff) IN SubSeq(r.xff, 1, commaIdx)
    ELSE IF r.realIP # <<>> THEN r.realIP
    ELSE r.peer

\* The identities the middleware can hand to Allow.
MiddlewareKeys == {getClientIP(r) : r \in HttpRequests}

InitMiddleware ==
    /\ now = 0
    /\ rows = {} /\ nextId = 1 /\ clicks = <<>> /\ clickTx = <<>>
    /\ cache = <<>>
    /\ xidCounter = 0
    /\ xidMachinePid = 0
    /\ genLast = NoGenCall
    /\ pc = <<>> /\ loc = <<>> /\ pending = <<>>
    /\ reaperPc = "idle" /\ reaperCodes = {} /\ reaperErr = "nil"
    /\ main = MainStart
    /\ issued = <<>>
    /\ createdOK = <<>>
    /\ opsLeft = 0
    /\ faultsLeft = 0
    /\ cacheDown = FALSE
    /\ limGlobal = BurstSize
    /\ limTable = <<>>
    /\ limPc = [c \in MiddlewareKeys |-> "idle"]
    /\ limLast = [c \in MiddlewareKeys |-> NoCall]
    /\ limQuiet = 0
    /\ limShadow = <<>>
    /\ limHeap = <<>> /\ limMap = <<>> /\ limReq = NoRequests

\* RateLimitMiddleware: ip := getClientIP(c), then limiter.Allow(ip).
NextMiddleware ==
    \/ \E r \in HttpRequests : AllowGlobal(getClientIP(r))
    \/ \E r \in HttpRequests : AllowClient(getClientIP(r))
    \/ LimRefill
    \/ LimSweep

SpecMiddleware == InitMiddleware /\ [][NextMiddleware]_vars

(***************************************************************************)
(* Start-up to exit: requests in flight, the termination signal, the       *)
(* deferred calls of main, and the two background goroutines.              *)
(***************************************************************************)
InitShutdown ==
    /\ now = 0
    /\ rows = {} /\ nextId = 1 /\ clicks = <<>> /\ clickTx = <<>>
    /\ cache = <<>>
    /\ xidCounter = 0
    /\ xidMachinePid = 0
    /\ genLast = NoGenCall
    /\ pc = <<>> /\ loc = <<>> /\ pending = <<>>
    /\ reaperPc = "idle" /\ reaperCodes = {} /\ reaperErr = "nil"
    /\ main = MainStart
    /\ issued = <<>>
    /\ createdOK = <<>>
    /\ opsLeft = 0
    /\ faultsLeft = 0
    /\ cacheDown = FALSE
    /\ LimiterNew

NextShutdown ==
    \/ HttpAccept
    \/ HttpDone
    \/ Quit
    \/ ShutdownDone
    \/ ShutdownTimeout
    \/ CloseLimiter
    \/ CloseRedis
    \/ CloseDB
    \/ Exit
    \/ ReaperSelect
    \/ ReaperSelectClosed
    \/ LimSweep
    \/ Tick

SpecShutdown == InitShutdown /\ [][NextShutdown]_vars

(***************************************************************************)
(* The reaper under fair scheduling: creates with an expiry, the clock and *)
(* the ticker-driven CleanupExpiredURLs, with Redis up or down for good.   *)
(***************************************************************************)
InitReaper ==
    /\ now = 0
    /\ rows = {} /\ nextId = 1 /\ clicks = <<>> /\ clickTx = <<>>
    /\ cache = <<>>
    /\ xidCounter = 0
    /\ xidMachinePid = 0
    /\ genLast = NoGenCall
    /\ pc = [t \in {1} |-> "idle"]
    /\ loc = [t \in {1} |-> IdleLoc]
    /\ pending = <<>>
    /\ reaperPc = "idle" /\ reaperCodes = {} /\ reaperErr = "nil"
    /\ main = MainStart
    /\ issued = <<>>
    /\ createdOK = <<>>
    /\ opsLeft = MaxOps
    /\ faultsLeft = MaxFaults
    /\ cacheDown \in BOOLEAN
    /\ LimiterNew

NextReaper ==
    \/ \E t \in DOMAIN pc, u \in RequestURLs, alias \in RequestAliases,
          exp \in RequestExpiry : CreateStart(t, u, alias, exp)
    \/ \E t \in DOMAIN pc : CreateExistsCache(t)
    \/ \E t \in DOMAIN pc : CreateExistsStore(t)
    \/ \E t \in DOMAIN pc : CreateStore(t)
    \/ \E t \in DOMAIN pc : CreateWarm(t)
    \/ \E t \in DOMAIN pc : Return(t)
    \/ ReaperSelect \/ ReaperMark \/ ReaperInvalidate
    \/ Tick

\* The ticker keeps firing and the reaper goroutine keeps running.
SpecReaper ==
    /\ InitReaper /\ [][NextReaper]_vars
    /\ WF_vars(ReaperSelect) /\ WF_vars(ReaperMark) /\ WF_vars(ReaperInvalidate)

(***************************************************************************)
(* Properties.                                                             *)
(***************************************************************************)
\* Task t holds the result of a request of kind `op`.
Answered(t, op) == pc[t] = "done" /\ loc[t].op = op

\* C1: a Resolve of a code whose Create has returned, arriving and answered
\* while the row is live, returns the long URL that Create was given.
C1_RoundTrip ==
    \A t \in DOMAIN pc :
        (/\ Answered(t, "resolve")
         /\ loc[t].pre.created /\ loc[t].pre.row = "live"
         /\ RowState(loc[t].code) = "live")
        => (loc[t].err = "nil" /\ loc[t].out = createdOK[loc[t].code])

\* C2: the codes one process obtains from GenerateCode are pairwise distinct.
C2_GenerateDistinct ==
    \A i, j \in 1..Len(issued) : i # j => issued[i] # issued[j]

\* C3: the store holds at most one row per code, and a Create that answers
\* with success committed the one row of its code; no other Create, earlier
\* or concurrent, succeeded with that code.
C3_OneRowPerCode ==
    /\ \A r1, r2 \in rows : r1.code = r2.code => r1 = r2
    /\ \A t \in DOMAIN pc :
          (Answered(t, "create") /\ loc[t].err = "nil") =>
            /\ \E r \in rows : r.code = loc[t].code /\ r.id = loc[t].rid
            /\ loc[t].code \notin DOMAIN createdOK
            /\ \A u \in DOMAIN pc \ {t} :
                  ~(/\ loc[u].op = "create" /\ loc[u].code = loc[t].code
                    /\ pc[u] \in {"create_warm", "done"} /\ loc[u].err = "nil"
                    /\ "repo.CreateURL" \in loc[u].calls)

\* Two Creates raced for one code: one committed its row, the other was
\* refused by the unique constraint.
C3_Witness ==
    \E t, u \in DOMAIN pc :
        /\ t # u
        /\ Answered(t, "create") /\ loc[t].err = "nil"
        /\ Answered(u, "create") /\ loc[u].err = "CreateDuplicateKey"
        /\ loc[u].code = loc[t].code

\* C4: a Create with a custom alias whose code has a row when the request
\* arrives is answered 409 alias_exists.
C4_AliasConflict ==
    \A t \in DOMAIN pc :
        (Answered(t, "create") /\ loc[t].custom /\ loc[t].pre.row # "none")
        => (/\ CreateResponse(loc[t].err).status = 409
            /\ CreateResponse(loc[t].err).error = "alias_exists")

\* C5: a Create without alias that found all MaxAttempts candidates taken
\* does not call repo.CreateURL.
C5_ExhaustionStops ==
    \A t \in DOMAIN pc :
        (loc[t].op = "create" /\ ~loc[t].custom /\ loc[t].i = MaxAttempts)
        => "repo.CreateURL" \notin loc[t].calls

\* C6: a Resolve that finds the negative entry of its code in place, from
\* its arrival to its answer, is answered 404 and makes no store call.
C6_NegativeSuppression ==
    \A t \in DOMAIN pc :
        (/\ Answered(t, "resolve")
         /\ loc[t].pre.negative
         /\ "cache.SetNegative" \notin loc[t].calls
         /\ loc[t].code \in DOMAIN cache /\ cache[loc[t].code].is_deleted)
        => (/\ RedirectResponse(loc[t].err).status = 404
            /\ "repo.GetURLByCode" \notin loc[t].calls)

\* C7: a Delete of a code whose row, one without expiry, is already
\* soft-deleted is answered 404 and leaves the row deleted.
C7_SecondDeleteNotFound ==
    \A t \in DOMAIN pc :
        (/\ Answered(t, "delete")
         /\ loc[t].pre.row = "deleted"
         /\ \A r \in RowsOf(loc[t].code) : r.expire_at = NoExpiry)
        => (/\ DeleteResponse(loc[t].err).status = 404
            /\ RowState(loc[t].code) = "deleted")

\* C8: a Resolve of a code whose row is soft-deleted is answered 410.
C8_DeletedIsGone ==
    \A t \in DOMAIN pc :
        (Answered(t, "resolve") /\ loc[t].pre.row = "deleted")
        => RedirectResponse(loc[t].err).status = 410

AllCodes ==
    {AliasA} \cup UNION {GenerateCode(XidValue(ts, 0, ctr)) :
                            ts \in 0..MaxTime, ctr \in 0..(Pow(2, CounterBits) - 1)}

C11_TTLClipped ==
    \A code \in DOMAIN cache :
        ~cache[code].is_deleted =>
            /\ cache[code].ttl_at # NoTTL
            /\ cache[code].ttl_at - now <= PositiveTTL
            /\ cache[code].expire_at # NoExpiry
                  => cache[code].ttl_at <= cache[code].expire_at + TTLBuffer

\* C12: with every cache call failing and the store answering, a Create
\* whose code is free succeeds, a Resolve of a live code returns the row's
\* long URL, and no request is answered with the cache's error.
C12_GracefulDegradation ==
    cacheDown =>
        \A t \in DOMAIN pc :
            /\ (/\ Answered(t, "resolve")
                /\ loc[t].pre.row = "live"
                /\ RowState(loc[t].code) = "live")
               => (/\ loc[t].err = "nil"
                   /\ \E r \in RowsOf(loc[t].code) : loc[t].out = r.long_url)
            /\ (Answered(t, "create") /\ loc[t].i = 0 /\ loc[t].pre.row = "none")
               => loc[t].err = "nil"
            /\ pc[t] = "done" => loc[t].err # "CacheFailure"

\* With Redis down, a Resolve of a live code was answered with the record.
C12_Witness ==
    /\ cacheDown
    /\ \E t \in DOMAIN pc :
          /\ Answered(t, "resolve")
          /\ loc[t].pre.row = "live"
          /\ loc[t].cacheErr
          /\ loc[t].err = "nil"
          /\ loc[t].out # Null

\* C13: an Allow returns true iff the global bucket had a token when it was
\* checked and the client's bucket had one when it was checked; when the
\* global bucket denies, the per-client table is not touched.
C13_AdmissionPolicy ==
    \A c \in Clients :
        limLast[c].done =>
            /\ limLast[c].result = (limLast[c].globalHad /\ limLast[c].clientHad)
            /\ ~limLast[c].globalHad => ~limLast[c].touched

\* An Allow denied by the global bucket while the table has no entry for
\* the client, and one admitted by both buckets.
C13_Witness ==
    \E c, d \in Clients :
        /\ limLast[c].done /\ ~limLast[c].globalHad /\ c \notin DOMAIN limTable
        /\ limLast[d].done /\ limLast[d].result

\* C14: a client whose own bucket and the global bucket had a token is
\* admitted also while another client's bucket is empty; a client is denied
\* only if the global bucket or its own bucket was empty.
C14_AdmissionIsolation ==
    \A b \in Clients :
        limLast[b].done =>
            /\ (limLast[b].otherEmpty /\ limLast[b].globalHad /\ limLast[b].clientHad)
                  => limLast[b].result
            /\ ~limLast[b].result => (~limLast[b].globalHad \/ ~limLast[b].clientHad)

\* A client admitted while another client's bucket was empty.
C14_Witness ==
    \E b \in Clients :
        limLast[b].done /\ limLast[b].otherEmpty /\ limLast[b].result

\* C15: after IdleEviction + 2 cleanup sweeps without a step of an Allow
\* the per-client table is empty.
C15_TableGC ==
    limQuiet >= IdleEviction + 2 => DOMAIN limTable = {}

\* The table got an entry by a call and was swept since.
C15_Witness ==
    /\ limQuiet >= IdleEviction + 2
    /\ \E c \in Clients : limLast[c].touched

\* C18: a Create that validateURL refuses is answered 400 url_too_long for
\* an overlong URL, 400 invalid_url for an unparseable URL, a scheme other
\* than http/https or an empty host, and 403 url_blocked for a blocked or
\* not allowed host; and it makes no store or cache call.
C18_PreValidation ==
    \A t \in DOMAIN pc :
        Answered(t, "create") =>
            LET err  == loc[t].err
                resp == CreateResponse(err)
            IN  /\ err = "UrlTooLong"
                      => (resp.status = 400 /\ resp.error = "url_too_long")
                /\ err \in {"UrlUnparseable", "UrlBadScheme", "UrlNoHost"}
                      => (resp.status = 400 /\ resp.error = "invalid_url")
                /\ err \in {"UrlHostBlocked", "UrlHostNotAllowed"}
                      => (resp.status = 403 /\ resp.error = "url_blocked")
                /\ err \in {"UrlTooLong", "UrlUnparseable", "UrlBadScheme", "UrlNoHost",
                             "UrlHostBlocked", "UrlHostNotAllowed"}
                      => loc[t].calls = {}

\* C16: DeleteURL soft-deletes in the store before it touches the cache;
\* when the store reports not found it returns that error without a cache
\* call; once the store delete succeeded it returns success with the row
\* deleted, also when the cache delete failed.
C16_DeleteOrder ==
    \A t \in DOMAIN pc :
        /\ pc[t] = "delete_store" => loc[t].calls = {}
        /\ pc[t] = "delete_cache" =>
              /\ loc[t].calls = {"repo.DeleteURL"}
              /\ RowState(loc[t].code) = "deleted"
        /\ Answered(t, "delete") =>
              /\ loc[t].err = "RepoNotFound" => loc[t].calls = {"repo.DeleteURL"}
              /\ "cache.Delete" \in loc[t].calls =>
                    /\ loc[t].err = "nil"
                    /\ RowState(loc[t].code) = "deleted"

C16_Witness ==
    \E t \in DOMAIN pc :
        /\ Answered(t, "delete")
        /\ loc[t].cacheErr
        /\ loc[t].err = "nil"
        /\ RowState(loc[t].code) = "deleted"

\* C17: when the store fails unexpectedly during a Resolve or a Delete,
\* the response is 500, never 404 or 410.
C17_StoreFailureIs500 ==
    \A t \in DOMAIN pc :
        /\ (Answered(t, "resolve") /\ loc[t].err = "GetStoreFailure")
              => RedirectResponse(loc[t].err).status = 500
        /\ (Answered(t, "delete") /\ loc[t].err = "DeleteStoreFailure")
              => DeleteResponse(loc[t].err).status = 500

\* C19: after any RecordClick calls, also ones whose statements execute in
\* another order than their timestamps, every code's click_stats row has
\* total_clicks = the number of its click_events rows, first_access_at =
\* their least ts and last_access_at = their greatest ts.
C19_ClickStats ==
    \A code \in DOMAIN clicks :
        LET s  == clicks[code]
            ts == {s.events[i] : i \in 1..Len(s.events)}
        IN  /\ s.total_clicks = Len(s.events)
            /\ \A x \in ts : s.first_access_at <= x /\ x <= s.last_access_at
            /\ s.first_access_at \in ts
            /\ s.last_access_at \in ts

\* C20: once a row is deleted, no step adds a click event for its code or
\* changes its click statistics, the click of a Resolve answered from a
\* cached entry included.
C20_DeletedRejectsClicks ==
    [][\A code \in {r.code : r \in rows} :
          RowState(code) = "deleted" =>
              /\ (code \in DOMAIN clicks') = (code \in DOMAIN clicks)
              /\ code \in DOMAIN clicks => clicks'[code] = clicks[code]]_vars

\* C21: every result of GenerateCode has exactly CodeLength characters, all
\* of the base-62 alphabet, whether the encoding was padded or truncated.
C21_GenerateShape ==
    genLast.fn = "GenerateCode" =>
        /\ Len(genLast.out) = CodeLength
        /\ \A i \in 1..Len(genLast.out) : genLast.out[i] \in Base62

C21_Witness ==
    /\ genLast.fn = "GenerateCode"
    /\ genLast.id \notin SmallIds
    /\ Len(toBase62(genLast.id)) > CodeLength
    /\ genLast.out = Take(toBase62(genLast.id), CodeLength)

\* C22: GenerateCustomCode removes every character outside the alphabet,
\* interior ones included, then pads with random base-62 characters or
\* truncates to CodeLength; an alias with no character left falls back to
\* GenerateCode.
C22_DeriveNormalizes ==
    genLast.fn = "GenerateCustomCode" =>
        LET IsBase62(c) == c \in Base62
            kept == SelectSeq(genLast.in, IsBase62)
            n    == Min(Len(kept), CodeLength)
        IN  IF kept = <<>>
            THEN genLast.out \in GenerateCode(genLast.id)
            ELSE /\ Len(genLast.out) = CodeLength
                 /\ Take(genLast.out, n) = Take(kept, n)
                 /\ \A i \in 1..Len(genLast.out) : genLast.out[i] \in Base62

\* C23: ValidateCode(code) is true iff code has 4 to 16 characters, all of
\* the alphabet, and it returns what TestValidateCode expects for each code
\* of its table.
C23_ValidateCode ==
    genLast.fn = "ValidateCode" =>
        /\ genLast.ok = (/\ Len(genLast.in) >= 4 /\ Len(genLast.in) <= 16
                          /\ \A i \in 1..Len(genLast.in) : genLast.in[i] \in Base62)
        /\ \A t \in TestValidateCode : t.code = genLast.in => genLast.ok = t.valid

\* C24: the key of a per-client bucket is the first entry of
\* X-Forwarded-For when the header is present, else X-Real-IP, else the
\* peer; so requests whose X-Forwarded-For lists start with the same entry
\* have one bucket.
C24_ClientIdentity ==
    LET identity(r) == IF r.xff # <<>> THEN <<r.xff[1]>>
                       ELSE IF r.realIP # <<>> THEN r.realIP
                       ELSE r.peer
    IN  DOMAIN limTable \subseteq {identity(r) : r \in HttpRequests}

\* C25: after the termination signal the server accepts no request and
\* main waits for the requests in flight; the store and the cache handle
\* are closed only once the reaper loop and the limiter's sweeper have
\* stopped, and the reaper never calls CleanupExpiredURLs on a closed store.
C25_ShutdownOrder ==
    /\ main.pc # "serving" => ~main.accepting
    /\ main.pc \in {"close_limiter", "close_redis", "close_db", "sync"} => main.inflight = 0
    /\ (~main.dbOpen \/ ~main.redisOpen) => (~WorkerRunning /\ ~SweeperTicking)
    /\ ~main.closedStoreCall

\* C26: when CreateURL reports a unique-key conflict for a generated code
\* and the loop has attempts left, CreateShortURL does not return the
\* error: it goes on with a new code.
C26_CollisionRetry ==
    [][\A t \in DOMAIN pc :
          (/\ pc[t] = "create_store"
           /\ ~loc[t].custom
           /\ loc[t].i + 1 < MaxAttempts
           /\ UniqueViolation(loc[t].code)
           /\ pc'[t] = "done")
          => loc'[t].err # "CreateDuplicateKey"]_vars

C29_ExpiredSetSkipped ==
    [][\A t \in DOMAIN pc :
          LET exp == IF pc[t] = "create_warm" THEN loc[t].exp ELSE loc[t].rec.expire_at
          IN  (/\ pc[t] \in {"create_warm", "resolve_warm"} /\ pc'[t] # pc[t]
               /\ exp # NoExpiry /\ exp - now <= 0)
              => cache' = cache]_vars

\* C30: a run of CleanupExpiredURLs goes on to its writes only with a
\* selection that is not empty and writes nothing while selecting; when
\* MarkURLsAsDeleted fails the run ends with an error (500 cleanup_failed)
\* and the cache is not touched; when MarkURLsAsDeleted has succeeded the
\* run reports success (200) whether InvalidateExpired fails or not.
C30_CleanupErrors ==
    [][/\ (reaperPc = "idle" /\ reaperPc' = "mark")
          => /\ reaperCodes' # {}
             /\ UNCHANGED <<rows, cache>>
       /\ (reaperPc = "mark" /\ reaperPc' = "idle")
          => /\ reaperErr' # "nil"
             /\ CleanupExpiredResponse(reaperErr') = [status |-> 500, error |-> "cleanup_failed"]
             /\ UNCHANGED <<rows, cache>>
       /\ (reaperPc = "invalidate" /\ reaperPc' = "idle")
          => /\ reaperErr' = "nil"
             /\ CleanupExpiredResponse(reaperErr').status = 200]_vars

\* C31: a sweep of cleanup keeps, with its tokens, the entry of every
\* client whose last call reached the table less than IdleEviction before
\* the sweep.
C31_EvictOnlyIdle ==
    [][\A c \in DOMAIN limLast :
          (/\ limLast[c].touched /\ c \in DOMAIN limTable
           /\ limLast[c].age < IdleEviction
           /\ limLast'[c].age = limLast[c].age + 1)
          => /\ c \in DOMAIN limTable'
             /\ limTable'[c] = limTable[c]]_vars

\* C32: in every step each row stays, with its id, code, long_url and
\* expire_at, and is_deleted never goes back to false; is_deleted becomes
\* true only by the DeleteURL of a Delete of that code or by the
\* MarkURLsAsDeleted of a cleanup run on a row whose expire_at is before
\* now, and one cleanup run marks at most BatchLimit rows.
C32_RowDiscipline ==
    [][LET marked == {r \in rows : /\ ~r.is_deleted
                                   /\ [r EXCEPT !.is_deleted = TRUE] \in rows'}
       IN  /\ \A r \in rows :
                 \/ r \in rows'
                 \/ ~r.is_deleted /\ [r EXCEPT !.is_deleted = TRUE] \in rows'
           /\ \A r \in rows' \ rows :
                 \/ \E o \in rows : r = [o EXCEPT !.is_deleted = TRUE]
                 \/ \A o \in rows : o.id # r.id /\ o.code # r.code
           /\ \A r \in marked :
                 \/ \E t \in DOMAIN pc : /\ pc[t] = "delete_store" /\ pc'[t] = "delete_cache"
                                         /\ loc[t].code = r.code
                 \/ /\ reaperPc = "mark" /\ reaperPc' = "invalidate"
                    /\ r.expire_at # NoExpiry /\ r.expire_at < now
                    /\ Cardinality(marked) <= BatchLimit]_vars

\* A cleanup run has marked one expired row and the LIMIT left another.
C32_Witness ==
    /\ reaperPc = "invalidate"
    /\ \E r \in rows : r.code \in reaperCodes /\ r.is_deleted /\ r.expire_at < now
    /\ ExpiredLive # {}

\* C33: expire_at is an exclusive bound.  From the instant now = expire_at
\* on, GetURLByCode and cache.Get report a record that is not deleted as
\* expired, and a Resolve that reads it then is answered 410.
C33_ExclusiveExpiry ==
    [][/\ \A r \in rows :
             (~r.is_deleted /\ r.expire_at # NoExpiry /\ now >= r.expire_at)
             => GetURLByCode(r.code).err = "RepoExpired"
       /\ \A code \in DOMAIN cache :
             (/\ ~cache[code].is_deleted /\ cache[code].expire_at # NoExpiry
              /\ now >= cache[code].expire_at)
             => CacheGet(code).err = "CacheExpired"
       /\ \A t \in DOMAIN pc :
             LET code == loc[t].code
             IN  /\ (/\ pc[t] = "resolve_cache" /\ pc'[t] # "resolve_cache"
                     /\ ~loc'[t].cacheErr /\ code \in DOMAIN cache
                     /\ ~cache[code].is_deleted /\ cache[code].expire_at # NoExpiry
                     /\ now >= cache[code].expire_at)
                    => /\ pc'[t] = "done"
                       /\ RedirectResponse(loc'[t].err).status = 410
                 /\ (/\ pc[t] = "resolve_store" /\ pc'[t] # "resolve_store"
                     /\ loc'[t].err # "GetStoreFailure"
                     /\ \E r \in rows : /\ r.code = code /\ ~r.is_deleted
                                         /\ r.expire_at # NoExpiry /\ now >= r.expire_at)
                    => /\ pc'[t] = "done"
                       /\ RedirectResponse(loc'[t].err).status = 410]_vars

\* C34: a Resolve answered from the cache returns the record in the step
\* that starts one recordClickAsync goroutine for its code, before any
\* click is written; on the store path repo.RecordClick is called once,
\* within the request, and the record is returned whether the call fails
\* or not; and the run of a recordClickAsync goroutine, failing or not,
\* changes no request's result.
C34_ClickNeverAffectsResolve ==
    [][/\ \A t \in DOMAIN pc :
             LET code == loc[t].code
                 had  == IF code \in DOMAIN pending THEN pending[code] ELSE 0
             IN  /\ (/\ pc[t] = "resolve_cache" /\ pc'[t] = "done"
                     /\ loc'[t].err = "nil")
                    => /\ loc'[t].out = cache[code].long_url
                       /\ "repo.RecordClick" \notin loc'[t].calls
                       /\ clicks' = clicks
                       /\ code \in DOMAIN pending' /\ pending'[code] = had + 1
                       /\ \A c \in DOMAIN pending' \ {code} :
                             c \in DOMAIN pending /\ pending'[c] = pending[c]
                 /\ (/\ pc[t] = "resolve_cache" /\ pc'[t] # "resolve_cache"
                     /\ ~(pc'[t] = "done" /\ loc'[t].err = "nil"))
                    => pending' = pending
                 /\ (pc[t] = "resolve_click" /\ pc'[t] # "resolve_click")
                    => /\ pc'[t] = "done" /\ loc'[t].err = "nil"
                       /\ loc'[t].out = loc[t].rec.long_url
                       /\ "repo.RecordClick" \notin loc[t].calls
                       /\ "repo.RecordClick" \in loc'[t].calls
                       /\ clicks' \in {clicks, RecordClick(code, now)}
                       /\ pending' = pending
       /\ (/\ pending' # pending
           /\ \A t \in DOMAIN pc :
                 ~(pc[t] = "resolve_cache" /\ pc'[t] # "resolve_cache"))
             => pc' = pc /\ loc' = loc]_vars

\* A Resolve that returned the store's record although its RecordClick
\* failed.
C34_Witness ==
    \E t \in DOMAIN pc :
        /\ Answered(t, "resolve") /\ loc[t].err = "nil"
        /\ loc[t].out # Null
        /\ "repo.RecordClick" \in loc[t].calls
        /\ loc[t].code \notin DOMAIN clicks

\* C35: while the row of a code whose Create has answered with success is
\* not soft-deleted, the cache holds no negative entry for that code.
C35_NoNegativeAfterCreate ==
    \A code \in DOMAIN cache :
        (/\ \/ code \in DOMAIN createdOK
            \/ \E t \in DOMAIN pc : /\ Answered(t, "create") /\ loc[t].err = "nil"
                                    /\ loc[t].code = code
         /\ \E r \in rows : r.code = code /\ ~r.is_deleted)
        => ~cache[code].is_deleted

\* C36: once a Delete of a code whose Create had returned has soft-deleted
\* the row and its cache.Delete has succeeded, the cache holds no entry of
\* the code that a Resolve would be answered from with the record.
C36_NoStaleAfterDelete ==
    \A t \in DOMAIN pc :
        (/\ Answered(t, "delete") /\ loc[t].err = "nil"
         /\ loc[t].pre.created
         /\ "cache.Delete" \in loc[t].calls /\ ~loc[t].cacheErr)
        => CacheGet(loc[t].code).err # "nil"

C38_RateBoundAcrossSweeps ==
    \A c \in DOMAIN limShadow : limShadow[c] >= 0

\* C39: an Allow that finds a token in the global bucket takes it before
\* the client's limiter is looked at, and the token stays taken whatever
\* the client's bucket answers; an Allow that finds none takes nothing.
C39_GlobalAccounting ==
    [][\A c \in DOMAIN limPc :
          /\ (limPc[c] = "idle" /\ limPc'[c] = "client")
             => /\ limGlobal >= 1 /\ limGlobal' = limGlobal - 1
                /\ limTable' = limTable
          /\ (limPc[c] = "idle" /\ limPc'[c] = "idle" /\ limLast'[c] # limLast[c]
              /\ limLast'[c].age = 0 /\ limLast'[c].done /\ ~limLast'[c].globalHad)
             => limGlobal = 0 /\ limGlobal' = 0
          /\ (limPc[c] = "client" /\ limPc'[c] = "idle")
             => /\ limGlobal' = limGlobal
                /\ limLast'[c].globalHad
                /\ limLast'[c].result = limLast'[c].clientHad]_vars

\* A call of one client was denied by its own bucket after taking a global
\* token, and a call of another client, whose bucket holds a token, was
\* denied by the empty global bucket.
C39_Witness ==
    \E a, b \in DOMAIN limPc :
        /\ a # b
        /\ limLast[a].done /\ limLast[a].globalHad /\ ~limLast[a].result
        /\ limLast[b].done /\ ~limLast[b].globalHad
        /\ BucketOf(b) >= 1

\* C40: with the store and the cache answering, a Create of a valid URL
\* without alias made in the second in which the process started, when
\* all rows so far come from Creates without alias and none is deleted,
\* succeeds with a code no earlier Create returned.
C40_SuccessiveCreates ==
    \A t \in DOMAIN pc :
        (/\ Answered(t, "create") /\ ~loc[t].custom
         /\ ~cacheDown /\ now = 0
         /\ \A r \in rows : ~r.custom_alias /\ ~r.is_deleted)
        => /\ loc[t].err = "nil"
           /\ loc[t].code \notin DOMAIN createdOK

====
